---- MODULE Spec2Model ----
(***************************************************************************)
(* calculator-server: the MCP dispatch engine (Server.HandleRequest and    *)
(* the tool registry), the stdio loop, the streamable HTTP transport (CORS *)
(* layer, protocol-version and session checks, POST/GET handlers, session  *)
(* store, session reaper) and the plain HTTP transport.                    *)
(*                                                                         *)
(* JSON documents are modelled by their shape: a tagged record per value,  *)
(* the tag "t" naming the JSON kind, so that json.Unmarshal is an operator *)
(* that can fail.  Time is an integer clock ("now"); durations are counted *)
(* in the same unit.                                                       *)
(***************************************************************************)
EXTENDS Integers, Sequences, FiniteSets, TLC

VARIABLES
    tools,      \* Server.tools: registered tool name -> handler
    last,       \* the latest direct calls on the Server: the HandleRequest call (request,
                \* response, handler calls, registry at the call, outcome of the call
                \* before it), the RegisterTool call, and in a history of calls the
                \* first response to each request
    stdin,      \* os.Stdin: the lines Run is given
    stdout,     \* os.Stdout: the response lines Run has written
    run,        \* Server.Run: position in its loop, lines consumed, returned error
    config,     \* StreamableHTTPConfig: CORSEnabled, CORSOrigins
    server,     \* StreamableHTTPTransport.server: the http.Server's lifecycle
    now,        \* the wall clock read by time.Now()
    sessions,   \* StreamableHTTPTransport.sessions: id -> Session
    nextID,     \* the next session id createSession draws (ids are never drawn twice)
    mux,        \* StreamableHTTPTransport.sessionsMux: writer and readers holding it
    reaper,     \* position of the cleanupExpiredSessions goroutine
    pc,         \* position of each request-handling goroutine
    req,        \* the HTTP request each goroutine is serving
    resp        \* the HTTP response each goroutine has produced so far

vars == <<tools, last, stdin, stdout, run, config, server, now, sessions, nextID, mux, reaper,
         pc, req, resp>>

-----------------------------------------------------------------------------
(* Bounds of the model *)

MaxTime == 3          \* the clock stops advancing here
SessionTimeout == 1   \* config.SessionTimeout, in clock units
MaxSessions == 2      \* createSession is not called more often than this
MaxFrames == 2        \* heartbeats emitted on one stream
MaxLines == 3         \* lines on os.Stdin

-----------------------------------------------------------------------------
(* Program constants *)

ErrorCodeInvalidRequest == -32600
ErrorCodeMethodNotFound == -32601
ErrorCodeInvalidParams == -32602
ErrorCodeInternalError == -32603

StatusOK == 200
StatusBadRequest == 400
StatusUnauthorized == 401
StatusNotFound == 404
StatusMethodNotAllowed == 405
StatusInternalServerError == 500

Nil == [t |-> "nil"]

-----------------------------------------------------------------------------
(* Tool handlers: external functions arguments -> (result, error).         *)
(* Three behaviours are registered in the model.                           *)

Handlers == {"hAdd", "hAlt", "hFail"}

\* handler(params.Arguments): the (result, err) pair the handler returns.
CallHandler(h, arguments) ==
    CASE h = "hFail" -> [result |-> Nil, err |-> [t |-> "error", msg |-> "hFail: failed"]]
      [] h = "hAdd" /\ arguments # "good" ->
            [result |-> Nil, err |-> [t |-> "error", msg |-> "hAdd: invalid arguments"]]
      [] h = "hAdd" -> [result |-> [t |-> "num", v |-> 8], err |-> Nil]
      [] OTHER -> [result |-> [t |-> "num", v |-> 3], err |-> Nil]

\* json.Marshal(result) followed by string(...): the text of the content block.
MarshalResult(result) ==
    CASE result.t = "num" /\ result.v = 8 -> "8"
      [] result.t = "num" /\ result.v = 3 -> "3"
      [] OTHER -> "null"

-----------------------------------------------------------------------------
(* json.Unmarshal(req.Params, &params) for params of type CallToolParams.  *)
(* A raw params value is                                                   *)
(*   [t |-> "absent"]   no params member (nil RawMessage)                  *)
(*   [t |-> "garbage"]  bytes that are not JSON                            *)
(*   [t |-> "null"]     the JSON null                                      *)
(*   [t |-> "array"]    a JSON value that is not an object                 *)
(*   [t |-> "object", name |-> f, arguments |-> g]                         *)
(* where a member f or g is absent, null, of the right JSON type ("str"    *)
(* for name, "object" for arguments, with its value v) or of any other     *)
(* JSON type, which json.Unmarshal refuses with an UnmarshalTypeError.     *)

FieldAbsent == [t |-> "absent"]
FieldNull == [t |-> "null"]

\* Variant: a decoder that accepts an arguments member of any JSON type.
UnmarshalCallToolParams_Lenient(raw) ==
    CASE raw.t \in {"absent", "garbage", "array"} ->
            [err |-> TRUE, Name |-> "", Arguments |-> "nil"]
      [] raw.t = "null" ->
            [err |-> FALSE, Name |-> "", Arguments |-> "nil"]
      [] OTHER ->
            [err |-> raw.name.t \notin {"absent", "null", "str"},
             Name |-> IF raw.name.t = "str" THEN raw.name.v ELSE "",
             Arguments |-> IF raw.arguments.t = "object" THEN raw.arguments.v ELSE "nil"]

UnmarshalCallToolParams(raw) ==
    CASE raw.t \in {"absent", "garbage", "array"} ->
            [err |-> TRUE, Name |-> "", Arguments |-> "nil"]
      [] raw.t = "null" ->
            [err |-> FALSE, Name |-> "", Arguments |-> "nil"]
      [] OTHER ->
            [err |-> \/ raw.name.t \notin {"absent", "null", "str"}
                     \/ raw.arguments.t \notin {"absent", "null", "object"},
             Name |-> IF raw.name.t = "str" THEN raw.name.v ELSE "",
             Arguments |-> IF raw.arguments.t = "object" THEN raw.arguments.v ELSE "nil"]

-----------------------------------------------------------------------------
(* Server.getToolDefinition: the static table of six tools.                *)

BuiltinTools ==
    {"basic_math", "advanced_math", "expression_eval", "statistics",
     "unit_conversion", "financial"}

getToolDefinition(name) ==
    IF name \in BuiltinTools
    THEN [Name |-> name, Description |-> "builtin"]
    ELSE [Name |-> "", Description |-> ""]

-----------------------------------------------------------------------------
(* Server.HandleRequest.  Returns the response and, as a record of what    *)
(* the call did, the handler invocations it made.                          *)

MCPError(code, message, data) ==
    [Code |-> code, Message |-> message, Data |-> data]

InitializeResult ==
    [t |-> "initialize", protocolVersion |-> "2024-11-05",
     serverName |-> "calculator-server", serverVersion |-> "1.0.0"]

\* tools/list: one entry per key of s.tools, in map order (unspecified); the
\* entries are indexed here by the key that produced them.
ListToolsResult(registry) ==
    [t |-> "tools", Tools |-> [n \in DOMAIN registry |-> getToolDefinition(n)]]

CallToolResult(result) ==
    [t |-> "content", Type |-> "text", Text |-> MarshalResult(result)]

\* Variant: the InvalidParams response without the request's id.
InvalidParamsResponse_NoID(request) ==
    [ID |-> Nil, Result |-> Nil,
     Error |-> MCPError(ErrorCodeInvalidParams, "Invalid parameters", "unmarshal error")]

\* tools/call: params do not decode
InvalidParamsResponse(request) ==
    [ID |-> request.ID, Result |-> Nil,
     Error |-> MCPError(ErrorCodeInvalidParams, "Invalid parameters", "unmarshal error")]

\* Variant: the tool-not-found response without the tool's name.
ToolNotFoundResponse_NoData(request, name) ==
    [ID |-> request.ID, Result |-> Nil,
     Error |-> MCPError(ErrorCodeMethodNotFound, "Tool not found", "")]

\* tools/call: no handler under params.Name
ToolNotFoundResponse(request, name) ==
    [ID |-> request.ID, Result |-> Nil,
     Error |-> MCPError(ErrorCodeMethodNotFound, "Tool not found", name)]

\* Variant: the handler's failure reported together with a result.
ToolFailedResponse_WithResult(request, err) ==
    [ID |-> request.ID, Result |-> CallToolResult(Nil),
     Error |-> MCPError(ErrorCodeInternalError, "Tool execution failed", err.msg)]

\* Variant: the handler's failure reported without its message.
ToolFailedResponse_Generic(request, err) ==
    [ID |-> request.ID, Result |-> Nil,
     Error |-> MCPError(ErrorCodeInternalError, "Tool execution failed", "Tool execution failed")]

\* tools/call: the handler returned an error
ToolFailedResponse(request, err) ==
    [ID |-> request.ID, Result |-> Nil,
     Error |-> MCPError(ErrorCodeInternalError, "Tool execution failed", err.msg)]

\* tools/call: the handler returned a result
ToolResultResponse(request, result) ==
    [ID |-> request.ID, Result |-> CallToolResult(result), Error |-> Nil]

\* case "tools/call"
HandleToolsCall(registry, request) ==
    LET params == UnmarshalCallToolParams(request.Params)
    IN  IF params.err
        THEN [response |-> InvalidParamsResponse(request), calls |-> <<>>]
        ELSE IF params.Name \notin DOMAIN registry
        THEN [response |-> ToolNotFoundResponse(request, params.Name), calls |-> <<>>]
        ELSE LET h == registry[params.Name]
                 out == CallHandler(h, params.Arguments)
             IN  [response |-> IF out.err # Nil
                               THEN ToolFailedResponse(request, out.err)
                               ELSE ToolResultResponse(request, out.result),
                  calls |-> <<[handler |-> h, arguments |-> params.Arguments]>>]

\* Variant: an initialize whose descriptor depends on the registry.
HandleInitialize_ByRegistry(registry, request) ==
    [response |-> [ID |-> request.ID,
                   Result |-> [InitializeResult EXCEPT !.serverVersion =
                                  IF DOMAIN registry = {} THEN "1.0.0" ELSE "1.0.1"],
                   Error |-> Nil],
     calls |-> <<>>]

\* case "initialize"
HandleInitialize(registry, request) ==
    [response |-> [ID |-> request.ID, Result |-> InitializeResult, Error |-> Nil],
     calls |-> <<>>]

\* case "tools/list"
HandleToolsList(registry, request) ==
    [response |-> [ID |-> request.ID, Result |-> ListToolsResult(registry), Error |-> Nil],
     calls |-> <<>>]

\* Variant: the method-not-found response without the method's name.
HandleUnknownMethod_NoData(registry, request) ==
    [response |-> [ID |-> request.ID, Result |-> Nil,
                   Error |-> MCPError(ErrorCodeMethodNotFound, "Method not found", "")],
     calls |-> <<>>]

\* default
HandleUnknownMethod(registry, request) ==
    [response |-> [ID |-> request.ID, Result |-> Nil,
                   Error |-> MCPError(ErrorCodeMethodNotFound, "Method not found",
                                      request.Method)],
     calls |-> <<>>]

\* Variant: an engine that takes a tool out of the registry once its handler
\* has failed.
HandleRequest_Disabling(registry, request) ==
    LET out == CASE request.Method = "initialize" -> HandleInitialize(registry, request)
                 [] request.Method = "tools/list" -> HandleToolsList(registry, request)
                 [] request.Method = "tools/call" -> HandleToolsCall(registry, request)
                 [] OTHER -> HandleUnknownMethod(registry, request)
        failed == out.calls # <<>> /\ out.response.Error # Nil
        name == UnmarshalCallToolParams(request.Params).Name
    IN  [response |-> out.response, calls |-> out.calls,
         tools |-> IF failed
                   THEN [n \in DOMAIN registry \ {name} |-> registry[n]]
                   ELSE registry]

\* Server.HandleRequest: the switch on req.Method.  The Server has one field,
\* the tools map; the result carries the map as the call leaves it (no
\* branch assigns to s.tools, the tools/call branch only looks a name up).
HandleRequest(registry, request) ==
    LET out == CASE request.Method = "initialize" -> HandleInitialize(registry, request)
                 [] request.Method = "tools/list" -> HandleToolsList(registry, request)
                 [] request.Method = "tools/call" -> HandleToolsCall(registry, request)
                 [] OTHER -> HandleUnknownMethod(registry, request)
    IN  [response |-> out.response, calls |-> out.calls, tools |-> registry]

-----------------------------------------------------------------------------
(* json.Unmarshal(body, &mcpReq) for mcpReq of type MCPRequest.            *)
(* A request body is                                                       *)
(*   [t |-> "unreadable"]  io.ReadAll fails before any parsing             *)
(*   [t |-> "garbage"]     bytes that are not JSON                         *)
(*   [t |-> "spaces"]      white space only                                *)
(*   [t |-> "null"]        the JSON null                                   *)
(*   [t |-> "array"]       a JSON value that is not an object              *)
(*   [t |-> "object", id |-> i, method |-> m, params |-> raw]              *)
(* The id member may hold any JSON value (interface{}); method must be a   *)
(* string; params is kept raw (json.RawMessage), the JSON null included.   *)

\* A JSON number stored into an interface{} becomes a float64.  The model
\* writes [t |-> "num", v |-> n] for a small integer n, which a float64 holds
\* exactly, and [t |-> "big", v |-> k] for the integer 2^53 + k, which a
\* float64 holds only when k is even (numbers from 2^53 to 2^54 are spaced 2
\* apart; a tie goes to the even mantissa).
RoundToFloat64(k) ==
    IF k % 2 = 0 THEN k
    ELSE IF ((k - 1) \div 2) % 2 = 0 THEN k - 1 ELSE k + 1

\* The value json.Unmarshal stores into an interface{} for an id member.
IDOf(field) ==
    CASE field.t \in {"absent", "null"} -> Nil
      [] field.t = "big" -> [t |-> "big", v |-> RoundToFloat64(field.v)]
      [] OTHER -> field

ZeroMCPRequest == [ID |-> Nil, Method |-> "", Params |-> FieldAbsent]

\* Variant: a decoder that accepts a method member of any JSON type.
UnmarshalMCPRequest_Lenient(body) ==
    CASE body.t \in {"garbage", "array", "spaces"} -> [err |-> TRUE, req |-> ZeroMCPRequest]
      [] body.t = "null" -> [err |-> FALSE, req |-> ZeroMCPRequest]
      [] OTHER ->
            [err |-> FALSE,
             req |-> [ID |-> IDOf(body.id),
                      Method |-> IF body.method.t = "str" THEN body.method.v ELSE "",
                      Params |-> body.params]]

UnmarshalMCPRequest(body) ==
    CASE body.t \in {"garbage", "array", "spaces"} -> [err |-> TRUE, req |-> ZeroMCPRequest]
      [] body.t = "null" -> [err |-> FALSE, req |-> ZeroMCPRequest]
      [] OTHER ->
            [err |-> body.method.t = "num",
             req |-> [ID |-> IDOf(body.id),
                      Method |-> IF body.method.t = "str" THEN body.method.v ELSE "",
                      Params |-> body.params]]

-----------------------------------------------------------------------------
(* Server.Run: the stdio loop.  A line of os.Stdin, as bufio.Scanner sees  *)
(* it, is                                                                  *)
(*   [t |-> "empty"]            the empty line                             *)
(*   [t |-> "long"]             a line longer than the Scanner's buffer    *)
(*                              (bufio.MaxScanTokenSize, 64 KiB)           *)
(*   [t |-> "text", body |-> b] any other line, b a request body as above  *)

\* json.Marshal(response): id is always written (null for nil); result and
\* error are omitted when nil (omitempty).
MarshalResponse(response) ==
    [jsonrpc |-> "2.0",
     id |-> IF response.ID = Nil THEN FieldNull ELSE response.ID,
     result |-> IF response.Result = Nil THEN FieldAbsent ELSE response.Result,
     error |-> IF response.Error = Nil THEN FieldAbsent ELSE response.Error]

\* Server.writeResponse: one line on os.Stdout
writeResponse(out, response) == Append(out, MarshalResponse(response))

\* The response Run builds when a line does not decode.
ParseErrorResponse ==
    [ID |-> Nil, Result |-> Nil,
     Error |-> MCPError(ErrorCodeInvalidRequest, "Parse error", "unmarshal error")]

\* Variant: a loop that returns at the first line that does not decode.
runLine_StopOnError(registry, line, out) ==
    IF line.t = "empty"
    THEN [out |-> out, pc |-> "scan"]
    ELSE LET parsed == UnmarshalMCPRequest(line.body)
         IN  IF parsed.err
             THEN [out |-> writeResponse(out, ParseErrorResponse), pc |-> "returned"]
             ELSE [out |-> writeResponse(out, HandleRequest(registry, parsed.req).response),
                   pc |-> "scan"]

\* The body of Run's loop for one scanned line: os.Stdout afterwards and
\* where the loop goes.
runLine(registry, line, out) ==
    IF line.t = "empty"
    THEN [out |-> out, pc |-> "scan"]
    ELSE LET parsed == UnmarshalMCPRequest(line.body)
         IN  IF parsed.err
             THEN [out |-> writeResponse(out, ParseErrorResponse), pc |-> "scan"]
             ELSE [out |-> writeResponse(out, HandleRequest(registry, parsed.req).response),
                   pc |-> "scan"]

-----------------------------------------------------------------------------
(* The HTTP response under construction (http.ResponseWriter), with a      *)
(* record of what serving the request did: the functions entered (trace),  *)
(* the handler invocations (calls), the clock reading of isValidSession    *)
(* (checkedAt) and, until updateSessionActivity has run, whether that      *)
(* reading was short of LastSeen + SessionTimeout (early), the id          *)
(* createSession returned to handleGET (sessionID) and whether the         *)
(* request's context is cancelled (ctxDone).                               *)

NoResponse ==
    [status |-> 0, kind |-> "none", rpc |-> Nil, sessionHdr |-> 0,
     allowOrigin |-> Nil, events |-> <<>>, ctxDone |-> FALSE,
     checkedAt |-> 0, early |-> FALSE, sessionID |-> 0, trace |-> <<>>, calls |-> <<>>]

NoRequest ==
    [method |-> "", pv |-> "", sid |-> 0, accept |-> {}, origin |-> "",
     body |-> [t |-> "null"]]

Enter(w, fn) == [w EXCEPT !.trace = Append(@, fn)]

Entered(w, fn) == \E i \in 1..Len(w.trace) : w.trace[i] = fn

\* Variant: a rejection written as a JSON-RPC error.
httpError_Envelope(w, code) ==
    [w EXCEPT !.status = code, !.kind = "json",
              !.rpc = [ID |-> Nil, Result |-> Nil,
                       Error |-> MCPError(ErrorCodeInvalidRequest, "rejected", "")]]

\* http.Error(w, msg, code): a plain-text body under the given status.
httpError(w, code) == [w EXCEPT !.status = code, !.kind = "text"]

\* Variant: an allow-list without the wildcard.
isOriginAllowed_NoWildcard(cfg, origin) ==
    \E i \in 1..Len(cfg.CORSOrigins) : cfg.CORSOrigins[i] = origin

\* StreamableHTTPTransport.isOriginAllowed and HTTPTransport.isOriginAllowed
\* (the same code); r.Header.Get("Origin") is "" for a request without the
\* header.
isOriginAllowed(cfg, origin) ==
    \E i \in 1..Len(cfg.CORSOrigins) :
        cfg.CORSOrigins[i] = "*" \/ cfg.CORSOrigins[i] = origin

\* The header part of corsMiddleware.
corsHeaders(cfg, r, w) ==
    IF cfg.CORSEnabled /\ isOriginAllowed(cfg, r.origin)
    THEN [w EXCEPT !.allowOrigin = [t |-> "str", v |-> r.origin]]
    ELSE w

\* Variant: a CORS layer that hands the pre-flight to the wrapped handler.
corsAnswers_Never(cfg, r) == FALSE

\* Whether corsMiddleware answers the request itself (the OPTIONS pre-flight).
corsAnswers(cfg, r) == cfg.CORSEnabled /\ r.method = "OPTIONS"

\* Variant: a mapping that reports invalid params as a server error.
StatusForError_ParamsAs500(code) ==
    CASE code = ErrorCodeInvalidRequest -> StatusBadRequest
      [] code = ErrorCodeMethodNotFound -> StatusNotFound
      [] code = ErrorCodeInvalidParams -> StatusInternalServerError
      [] code = ErrorCodeInternalError -> StatusInternalServerError
      [] OTHER -> StatusInternalServerError

\* StreamableHTTPTransport.writeJSONResponse
StatusForError(code) ==
    CASE code = ErrorCodeInvalidRequest -> StatusBadRequest
      [] code = ErrorCodeMethodNotFound -> StatusNotFound
      [] code = ErrorCodeInvalidParams -> StatusBadRequest
      [] code = ErrorCodeInternalError -> StatusInternalServerError
      [] OTHER -> StatusInternalServerError

writeJSONResponse(w, response) ==
    [Enter(w, "writeJSONResponse") EXCEPT
        !.kind = "json",
        !.status = IF response.Error # Nil THEN StatusForError(response.Error.Code)
                   ELSE StatusOK,
        !.rpc = response]

\* StreamableHTTPTransport.writeErrorResponse
writeErrorResponse(w, id, code, message, data) ==
    writeJSONResponse(Enter(w, "writeErrorResponse"),
                      [ID |-> id, Result |-> Nil, Error |-> MCPError(code, message, data)])

\* Variant: an SSE response under the status of the error it carries.
writeSSEResponse_MappedStatus(w, response, sessionID) ==
    [Enter(w, "writeSSEResponse") EXCEPT
        !.kind = "sse",
        !.status = IF response.Error # Nil THEN StatusForError(response.Error.Code)
                   ELSE StatusOK,
        !.sessionHdr = sessionID,
        !.events = Append(@, [event |-> "message", data |-> response])]

\* StreamableHTTPTransport.writeSSEResponse: one "message" event; the status
\* is the implicit 200 of the first write.  The ResponseWriter is net/http's,
\* which implements http.Flusher.
writeSSEResponse(w, response, sessionID) ==
    [Enter(w, "writeSSEResponse") EXCEPT
        !.kind = "sse",
        !.status = StatusOK,
        !.sessionHdr = sessionID,
        !.events = Append(@, [event |-> "message", data |-> response])]

\* Variant: streaming for every method.
shouldStream_Always(request) == TRUE

\* StreamableHTTPTransport.shouldStream
shouldStream(request) == request.Method = "tools/call"

\* Variant: a parse failure answered under the id found in the payload.
handlePOSTBody_EchoID(registry, r, sessionID, w) ==
    IF r.body.t = "unreadable"
    THEN httpError(Enter(w, "io.ReadAll"), StatusBadRequest)
    ELSE LET parsed == UnmarshalMCPRequest(r.body)
             wr == Enter(w, "io.ReadAll")
         IN  IF parsed.err
             THEN writeErrorResponse(wr,
                                     IF r.body.t = "object" THEN IDOf(r.body.id) ELSE Nil,
                                     ErrorCodeInvalidRequest,
                                     "Invalid JSON-RPC request", "unmarshal error")
             ELSE LET out == HandleRequest(registry, parsed.req)
                      wd == [Enter(wr, "HandleRequest") EXCEPT !.calls = out.calls]
                  IN  IF "text/event-stream" \in r.accept /\ shouldStream(parsed.req)
                      THEN writeSSEResponse(wd, out.response, sessionID)
                      ELSE writeJSONResponse(wd, out.response)

\* StreamableHTTPTransport.handlePOST after its Accept check: the body is
\* read, parsed, dispatched and the response framed.
handlePOSTBody(registry, r, sessionID, w) ==
    IF r.body.t = "unreadable"
    THEN httpError(Enter(w, "io.ReadAll"), StatusBadRequest)
    ELSE LET parsed == UnmarshalMCPRequest(r.body)
             wr == Enter(w, "io.ReadAll")
         IN  IF parsed.err
             THEN writeErrorResponse(wr, Nil, ErrorCodeInvalidRequest,
                                     "Invalid JSON-RPC request", "unmarshal error")
             ELSE LET out == HandleRequest(registry, parsed.req)
                      wd == [Enter(wr, "HandleRequest") EXCEPT !.calls = out.calls]
                  IN  IF "text/event-stream" \in r.accept /\ shouldStream(parsed.req)
                      THEN writeSSEResponse(wd, out.response, sessionID)
                      ELSE writeJSONResponse(wd, out.response)

\* Variant: handlePOST without its Accept check.
handlePOST_NoAcceptCheck(registry, r, sessionID, w0) ==
    handlePOSTBody(registry, r, sessionID, Enter(w0, "handlePOST"))

\* StreamableHTTPTransport.handlePOST
handlePOST(registry, r, sessionID, w0) ==
    LET w == Enter(w0, "handlePOST")
    IN  IF "application/json" \notin r.accept /\ "text/event-stream" \notin r.accept
        THEN httpError(w, StatusBadRequest)
        ELSE handlePOSTBody(registry, r, sessionID, w)

\* Variant: a stream that opens without the "connection" event.
setupSSEStream_NoConnection(w, sessionID) ==
    [Enter(w, "setupSSEStream") EXCEPT
        !.kind = "sse",
        !.status = StatusOK,
        !.sessionHdr = sessionID]

\* StreamableHTTPTransport.setupSSEStream up to its select loop: the headers
\* and the initial "connection" event.
setupSSEStream(w, sessionID) ==
    [Enter(w, "setupSSEStream") EXCEPT
        !.kind = "sse",
        !.status = StatusOK,
        !.sessionHdr = sessionID,
        !.events = Append(@, [event |-> "connection", data |-> sessionID])]

-----------------------------------------------------------------------------
(* The session store.  Session ids are drawn by createSession from a       *)
(* 128-bit random source; the model draws 1, 2, ... and writes 0 for an    *)
(* absent Mcp-Session-Id header.                                           *)

EmptyMap == [x \in {} |-> Nil]

Session(id, createdAt, lastSeen) ==
    [ID |-> id, CreatedAt |-> createdAt, LastSeen |-> lastSeen, Active |-> TRUE]

\* time.Since(session.LastSeen) > t.config.SessionTimeout, the clock reading t
Expired(session, t) == t - session.LastSeen > SessionTimeout

\* Variant: isValidSession without the expiry test.
isValidSession_NoExpiry(store, sessionID, t) ==
    sessionID \in DOMAIN store /\ store[sessionID].Active

\* StreamableHTTPTransport.isValidSession, the clock reading t
isValidSession(store, sessionID, t) ==
    IF sessionID \notin DOMAIN store \/ ~store[sessionID].Active
    THEN FALSE
    ELSE IF Expired(store[sessionID], t) THEN FALSE ELSE TRUE

\* Variant: a touch that starts the session afresh.
updateSessionActivity_Recreate(store, sessionID, t) ==
    IF sessionID \in DOMAIN store
    THEN [store EXCEPT ![sessionID] = Session(sessionID, t, t)]
    ELSE store

\* StreamableHTTPTransport.updateSessionActivity, the clock reading t
updateSessionActivity(store, sessionID, t) ==
    IF sessionID \in DOMAIN store
    THEN [store EXCEPT ![sessionID].LastSeen = t]
    ELSE store

\* StreamableHTTPTransport.createSession: the store with the new session; the
\* two time.Now() calls read t1 and then t2.
createSession(store, sessionID, t1, t2) ==
    [id \in DOMAIN store \cup {sessionID} |->
        IF id = sessionID THEN Session(sessionID, t1, t2) ELSE store[id]]

\* Variant: a sweep that also removes the sessions at the boundary.
sweepExpired_AtBoundary(store, t) ==
    [id \in {i \in DOMAIN store : ~(t - store[i].LastSeen >= SessionTimeout)} |-> store[id]]

\* Variant: a sweep that removes nothing.
sweepExpired_Never(store, t) == store

\* One sweep of cleanupExpiredSessions, the clock reading t
sweepExpired(store, t) ==
    [id \in {i \in DOMAIN store : ~(t - store[i].LastSeen > SessionTimeout)} |-> store[id]]

\* sync.RWMutex: RLock succeeds while no writer holds the lock, Lock while
\* nobody holds it.
MuxFree == [writer |-> "none", readers |-> {}]
CanRLock == mux.writer = "none"

\* Variant: a Lock that does not wait for the readers.
CanLock_IgnoreReaders == mux.writer = "none"

CanLock == mux.writer = "none" /\ mux.readers = {}

-----------------------------------------------------------------------------
(* handleMCP after the session check: the method switch, handlePOST and    *)
(* handleGET.  Returns the handler's next position and the response.       *)

\* Variant: handleGET creating a session whether or not an id was supplied.
handleGET_AlwaysCreate(r, sessionID, w0) ==
    LET w == Enter(w0, "handleGET")
    IN  IF "text/event-stream" \notin r.accept
        THEN [pc |-> "done", w |-> httpError(w, StatusBadRequest)]
        ELSE [pc |-> "create", w |-> w]

\* Variant: handleGET without its Accept check.
handleGET_NoAcceptCheck(r, sessionID, w0) ==
    LET w == Enter(w0, "handleGET")
    IN  IF sessionID = 0
        THEN [pc |-> "create", w |-> w]
        ELSE [pc |-> "stream", w |-> setupSSEStream(w, sessionID)]

\* StreamableHTTPTransport.handleGET up to createSession or the stream
handleGET(r, sessionID, w0) ==
    LET w == Enter(w0, "handleGET")
    IN  IF "text/event-stream" \notin r.accept
        THEN [pc |-> "done", w |-> httpError(w, StatusBadRequest)]
        ELSE IF sessionID = 0
        THEN [pc |-> "create", w |-> w]
        ELSE [pc |-> "stream", w |-> setupSSEStream(w, sessionID)]

route(registry, r, sessionID, w) ==
    CASE r.method = "POST" -> [pc |-> "done", w |-> handlePOST(registry, r, sessionID, w)]
      [] r.method = "GET" -> handleGET(r, sessionID, w)
      [] OTHER -> [pc |-> "done", w |-> httpError(w, StatusMethodNotAllowed)]

\* Variant: handleMCP without the protocol-version check.
serveHTTP_NoVersionCheck(cfg, registry, r) ==
    LET w0 == corsHeaders(cfg, r, Enter(NoResponse, "corsMiddleware"))
        w1 == Enter(w0, "handleMCP")
    IN  IF corsAnswers(cfg, r)
        THEN [pc |-> "done", w |-> [w0 EXCEPT !.status = StatusOK, !.kind = "empty"]]
        ELSE IF r.sid # 0
        THEN [pc |-> "rlock", w |-> w1]
        ELSE route(registry, r, r.sid, w1)

\* Variant: handleMCP checking the session before the protocol version.
serveHTTP_SessionFirst(cfg, registry, r) ==
    LET w0 == corsHeaders(cfg, r, Enter(NoResponse, "corsMiddleware"))
        w1 == Enter(w0, "handleMCP")
    IN  IF corsAnswers(cfg, r)
        THEN [pc |-> "done", w |-> [w0 EXCEPT !.status = StatusOK, !.kind = "empty"]]
        ELSE IF r.sid # 0
        THEN [pc |-> "rlock", w |-> w1]
        ELSE IF r.pv = ""
        THEN [pc |-> "done", w |-> httpError(w1, StatusBadRequest)]
        ELSE route(registry, r, r.sid, w1)

\* corsMiddleware and handleMCP up to the session check.
serveHTTP(cfg, registry, r) ==
    LET w0 == corsHeaders(cfg, r, Enter(NoResponse, "corsMiddleware"))
        w1 == Enter(w0, "handleMCP")
    IN  IF corsAnswers(cfg, r)
        THEN [pc |-> "done", w |-> [w0 EXCEPT !.status = StatusOK, !.kind = "empty"]]
        ELSE IF r.pv = ""
        THEN [pc |-> "done", w |-> httpError(w1, StatusBadRequest)]
        ELSE IF r.sid # 0
        THEN [pc |-> "rlock", w |-> w1]
        ELSE route(registry, r, r.sid, w1)

-----------------------------------------------------------------------------
(* The plain HTTP transport (HTTPTransport): the same CORS layer in front  *)
(* of a ServeMux with the routes /mcp, /health, /tools and /metrics.  A    *)
(* request is [method, path, contentType, origin, body].                   *)

\* strings.Contains(contentType, "application/json") on the Content-Type
\* values of the model.
ContainsJSON(contentType) ==
    contentType \in {"application/json", "application/json; charset=utf-8"}

\* Variant: a mapping that reports an unknown method as a bad request.
HTTPStatusFor_NotFoundAs400(response) ==
    IF response.Error = Nil THEN StatusOK
    ELSE CASE response.Error.Code = ErrorCodeInvalidRequest -> StatusBadRequest
           [] response.Error.Code = ErrorCodeMethodNotFound -> StatusBadRequest
           [] response.Error.Code = ErrorCodeInvalidParams -> StatusBadRequest
           [] response.Error.Code = ErrorCodeInternalError -> StatusInternalServerError
           [] OTHER -> StatusInternalServerError

\* HTTPTransport.handleMCP: the status code chosen for a dispatch response.
HTTPStatusFor(response) ==
    IF response.Error = Nil THEN StatusOK
    ELSE CASE response.Error.Code = ErrorCodeInvalidRequest -> StatusBadRequest
           [] response.Error.Code = ErrorCodeMethodNotFound -> StatusNotFound
           [] response.Error.Code = ErrorCodeInvalidParams -> StatusBadRequest
           [] response.Error.Code = ErrorCodeInternalError -> StatusInternalServerError
           [] OTHER -> StatusInternalServerError

\* HTTPTransport.writeJSONResponse
plainWriteJSONResponse(w, data, statusCode) ==
    [Enter(w, "HTTPTransport.writeJSONResponse") EXCEPT
        !.kind = "json", !.status = statusCode, !.rpc = data]

\* handleMCP's second decoding of a body that is no MCPRequest: into a
\* map[string]interface{}, which takes a JSON object (and the JSON null, as
\* a nil map); the id member, when there is one, is the response id.
recoverID(body) == IF body.t = "object" THEN IDOf(body.id) ELSE Nil

\* HTTPTransport.handleMCP
plainHandleMCP(registry, r, w0) ==
    LET w == Enter(w0, "HTTPTransport.handleMCP")
    IN  IF r.method # "POST" THEN httpError(w, StatusMethodNotAllowed)
        ELSE IF ~ContainsJSON(r.contentType) THEN httpError(w, StatusBadRequest)
        ELSE IF r.body.t = "unreadable"
        THEN httpError(Enter(w, "io.ReadAll"), StatusBadRequest)
        ELSE LET parsed == UnmarshalMCPRequest(r.body)
                 wr == Enter(w, "io.ReadAll")
             IN  IF parsed.err
                 THEN plainWriteJSONResponse(wr,
                          [ID |-> recoverID(r.body), Result |-> Nil,
                           Error |-> MCPError(ErrorCodeInvalidRequest,
                                              "Invalid JSON-RPC request", "unmarshal error")],
                          StatusBadRequest)
                 ELSE LET out == HandleRequest(registry, parsed.req)
                          wd == [Enter(wr, "HandleRequest") EXCEPT !.calls = out.calls]
                      IN  plainWriteJSONResponse(wd, out.response,
                                                 HTTPStatusFor(out.response))

\* HTTPTransport.handleHealth and HTTPTransport.handleMetrics: a fixed
\* document under 200, for a GET.
plainHandleDocument(r, w0, fn) ==
    LET w == Enter(w0, fn)
    IN  IF r.method # "GET" THEN httpError(w, StatusMethodNotAllowed)
        ELSE plainWriteJSONResponse(w, [t |-> "document"], StatusOK)

\* HTTPTransport.handleToolsList: a tools/list request of its own making.
plainHandleToolsList(registry, r, w0) ==
    LET w == Enter(w0, "HTTPTransport.handleToolsList")
    IN  IF r.method # "GET" THEN httpError(w, StatusMethodNotAllowed)
        ELSE LET out == HandleRequest(registry,
                            [ID |-> [t |-> "str", v |-> "tools-list"],
                             Method |-> "tools/list", Params |-> FieldAbsent])
                 wd == [Enter(w, "HandleRequest") EXCEPT !.calls = out.calls]
             IN  plainWriteJSONResponse(wd, out.response,
                     IF out.response.Error # Nil THEN StatusInternalServerError
                     ELSE StatusOK)

\* HTTPTransport.setupRoutes: the ServeMux; a path it does not know is
\* answered 404 by net/http.
plainRoute(registry, r, w) ==
    CASE r.path = "/mcp" -> plainHandleMCP(registry, r, w)
      [] r.path = "/health" -> plainHandleDocument(r, w, "HTTPTransport.handleHealth")
      [] r.path = "/tools" -> plainHandleToolsList(registry, r, w)
      [] r.path = "/metrics" -> plainHandleDocument(r, w, "HTTPTransport.handleMetrics")
      [] OTHER -> httpError(w, StatusNotFound)

\* HTTPTransport.corsMiddleware around the ServeMux.
plainServeHTTP(cfg, registry, r) ==
    LET w0 == corsHeaders(cfg, r, Enter(NoResponse, "HTTPTransport.corsMiddleware"))
    IN  IF corsAnswers(cfg, r)
        THEN [w0 EXCEPT !.status = StatusOK, !.kind = "empty"]
        ELSE plainRoute(registry, r, w0)

-----------------------------------------------------------------------------
(* Inputs *)

Procs == {"r1", "r2"}

HTTPMethods == {"POST", "GET", "OPTIONS", "DELETE"}
ProtocolVersions == {"", "2025-03-26"}
SessionHeaders == 0..MaxSessions
Accepts ==
    {{}, {"text/html"}, {"application/json"}, {"text/event-stream"},
     {"application/json", "text/event-stream"}}

Num1 == [t |-> "num", v |-> 1]
StrA == [t |-> "str", v |-> "a"]
Str(s) == [t |-> "str", v |-> s]
Args(a) == [t |-> "object", v |-> a]
ParamsObject(name, arguments) == [t |-> "object", name |-> name, arguments |-> arguments]
BodyObject(id, method, params) ==
    [t |-> "object", id |-> id, method |-> method, params |-> params]

\* Bodies of the POST requests: unreadable, unparsable (with and without a
\* recoverable id), the JSON null, and one request per dispatch outcome.
Bodies ==
    {[t |-> "unreadable"], [t |-> "garbage"], [t |-> "null"],
     BodyObject(Num1, [t |-> "num"], FieldAbsent),
     BodyObject(Num1, Str("initialize"), FieldAbsent),
     BodyObject(StrA, Str("tools/list"), FieldAbsent),
     BodyObject(FieldAbsent, Str("resources/list"), FieldAbsent),
     BodyObject(Num1, Str("tools/call"), FieldAbsent),
     BodyObject(Num1, Str("tools/call"), ParamsObject(Str("basic_math"), Args("good"))),
     BodyObject(Num1, Str("tools/call"), ParamsObject(Str("basic_math"), Args("bad")))}

HTTPRequest(method, pv, sid, accept, origin, body) ==
    [method |-> method, pv |-> pv, sid |-> sid, accept |-> accept,
     origin |-> origin, body |-> body]

\* Requests of the transport specification: every method and header; a POST
\* carries a tools/call, a tools/list or an unparsable body, any other method
\* carries none.
TransportAccepts == {{}, {"application/json"}, {"text/event-stream"}}
TransportBodies ==
    {[t |-> "garbage"],
     BodyObject(StrA, Str("tools/list"), FieldAbsent),
     BodyObject(Num1, Str("tools/call"), ParamsObject(Str("basic_math"), Args("good")))}

Requests ==
    {HTTPRequest(m, v, s, a, "", b) :
        m \in {"POST"}, v \in ProtocolVersions, s \in SessionHeaders,
        a \in TransportAccepts, b \in TransportBodies}
    \cup
    {HTTPRequest(m, v, s, a, "", [t |-> "null"]) :
        m \in HTTPMethods \ {"POST"}, v \in ProtocolVersions, s \in SessionHeaders,
        a \in TransportAccepts}

\* Requests handed to handlePOST on its own: every Accept and body.
POSTRequests ==
    {HTTPRequest("POST", "2025-03-26", s, a, "", b) :
        s \in SessionHeaders, a \in Accepts, b \in Bodies}

\* Direct callers of HandleRequest (the tests, the stdio loop) may pass any
\* bytes as params.
RequestIDs == {Nil, Num1, StrA}
ToolNames == {"basic_math", "custom"}
RawParams ==
    {FieldAbsent, [t |-> "garbage"], FieldNull, [t |-> "array"]}
    \cup {ParamsObject(Str(n), Args(a)) : n \in ToolNames \cup {"nope"}, a \in {"good", "bad"}}
    \cup {ParamsObject(Str("basic_math"), g) :
             g \in {FieldAbsent, FieldNull, [t |-> "array"], [t |-> "num"]}}
    \cup {ParamsObject(f, Args("good")) :
             f \in {FieldAbsent, FieldNull, [t |-> "num"], [t |-> "array"]}}

MCPRequest(id, method, params) == [ID |-> id, Method |-> method, Params |-> params]

MCPRequests ==
    {MCPRequest(id, m, FieldAbsent) :
        id \in RequestIDs,
        m \in {"initialize", "tools/list", "resources/list", "Initialize", ""}}
    \cup {MCPRequest(id, "initialize", [t |-> "garbage"]) : id \in RequestIDs}
    \cup {MCPRequest(id, "tools/call", ps) : id \in RequestIDs, ps \in RawParams}

\* Lines of os.Stdin: empty, over-long, white space, unparsable (with and
\* without an id), and one request per dispatch outcome.
LineBodies ==
    {[t |-> "spaces"], [t |-> "garbage"],
     BodyObject(Num1, [t |-> "num"], FieldAbsent),
     BodyObject(Num1, Str("initialize"), FieldAbsent),
     BodyObject(StrA, Str("tools/list"), FieldAbsent),
     BodyObject(FieldAbsent, Str("resources/list"), FieldAbsent),
     BodyObject(Num1, Str("tools/call"), ParamsObject(Str("basic_math"), Args("good"))),
     BodyObject(StrA, Str("tools/call"), ParamsObject(Str("basic_math"), Args("bad"))),
     BodyObject(Num1, Str("tools/call"), ParamsObject(Str("basic_math"), [t |-> "array"])),
     BodyObject(Num1, Str("tools/call"), ParamsObject(Str("nope"), Args("good")))}

Line(body) == [t |-> "text", body |-> body]

Lines == {[t |-> "empty"], [t |-> "long"]} \cup {Line(b) : b \in LineBodies}

Inputs == UNION {[1..n -> Lines] : n \in 0..MaxLines}

\* The registry the transport serves in the transport specification.
ServingRegistry == [n \in {"basic_math"} |-> "hAdd"]

Configs == {[CORSEnabled |-> e, CORSOrigins |-> <<"*">>] : e \in BOOLEAN}

\* Requests of the plain transport.  A POST /mcp carries any Content-Type
\* and body: unreadable, unparsable (not JSON, not an object, an object
\* whose method is a number, with each kind of id member) or one request
\* per dispatch outcome; the other routes and methods carry no body.
Big(k) == [t |-> "big", v |-> k]
ContentTypes == {"", "text/plain", "application/json", "application/json; charset=utf-8"}
PlainPaths == {"/mcp", "/health", "/tools", "/metrics", "/other"}
PlainIDs == {FieldAbsent, FieldNull, Num1, StrA, Big(1), Big(2)}
PlainBodies ==
    {[t |-> "unreadable"], [t |-> "garbage"], [t |-> "array"], [t |-> "null"]}
    \cup {BodyObject(i, [t |-> "num"], FieldAbsent) : i \in PlainIDs}
    \cup {BodyObject(Num1, Str("initialize"), FieldAbsent),
          BodyObject(StrA, Str("tools/list"), FieldAbsent),
          BodyObject(Big(1), Str("tools/list"), FieldAbsent),
          BodyObject(FieldAbsent, Str("resources/list"), FieldAbsent),
          BodyObject(Num1, Str("tools/call"), FieldAbsent),
          BodyObject(Num1, Str("tools/call"), ParamsObject(Str("custom"), Args("good"))),
          BodyObject(Num1, Str("tools/call"), ParamsObject(Str("basic_math"), Args("good"))),
          BodyObject(Num1, Str("tools/call"), ParamsObject(Str("basic_math"), Args("bad")))}

PlainRequest(method, path, contentType, origin, body) ==
    [method |-> method, path |-> path, contentType |-> contentType,
     origin |-> origin, body |-> body]

PlainRequests ==
    {PlainRequest("POST", "/mcp", c, "", b) : c \in ContentTypes, b \in PlainBodies}
    \cup
    {PlainRequest(m, p, "", "", [t |-> "null"]) :
        m \in {"GET", "POST", "OPTIONS"}, p \in PlainPaths}

\* Requests of the two-goroutine specification: a GET that opens a stream
\* on a new session, served by the first goroutine, and a tools/list POST
\* under each session id, served by either.
ConcRequests(p) ==
    {HTTPRequest("GET", "2025-03-26", 0, {"text/event-stream"}, "", [t |-> "null"]) :
        q \in {p} \cap {"r1"}}
    \cup
    {HTTPRequest("POST", "2025-03-26", s, {"application/json"}, "",
                 BodyObject(StrA, Str("tools/list"), FieldAbsent)) :
        s \in SessionHeaders \ {0}}

\* Plain-transport requests served beside the streamable transport's: each
\* rejection of handleMCP and one request that is dispatched.
PlainBesideRequests ==
    {PlainRequest("GET", "/mcp", "", "", [t |-> "null"]),
     PlainRequest("POST", "/mcp", "text/plain", "",
                  BodyObject(StrA, Str("tools/list"), FieldAbsent)),
     PlainRequest("POST", "/mcp", "application/json", "",
                  BodyObject(StrA, Str("tools/list"), FieldAbsent))}

\* Configurations and requests of the CORS specification: the allow-list is
\* the wildcard, one origin, or empty; a request names the listed origin,
\* another origin, or none.
Origins == {"", "http://a.test", "http://b.test"}
CORSConfigs ==
    {[CORSEnabled |-> e, CORSOrigins |-> l] :
        e \in BOOLEAN, l \in {<<"*">>, <<"http://a.test">>, <<"http://a.test", "*">>, <<>>}}

\* Streamable requests that are answered without the session store, and
\* plain requests on every route.
CORSRequests ==
    {HTTPRequest(m, v, 0, {"application/json"}, o,
                 BodyObject(StrA, Str("tools/list"), FieldAbsent)) :
        m \in {"POST", "OPTIONS", "DELETE"}, v \in ProtocolVersions, o \in Origins}
    \cup
    {HTTPRequest("GET", "", 0, {"text/event-stream"}, o, [t |-> "null"]) : o \in Origins}

PlainCORSRequests ==
    {PlainRequest(m, p, "application/json", o,
                  BodyObject(StrA, Str("tools/list"), FieldAbsent)) :
        m \in {"GET", "POST", "OPTIONS"}, p \in PlainPaths, o \in Origins}

NoCall ==
    [request |-> ZeroMCPRequest, response |-> Nil, calls |-> <<>>, registry |-> EmptyMap,
     reg |-> Nil, prev |-> [t |-> "none"], answered |-> EmptyMap]

\* Server.Run not called
RunIdle == [pc |-> "idle", pos |-> 0, err |-> Nil]

-----------------------------------------------------------------------------
(* Initial state: NewServer, NewStreamableHTTPTransport *)

Init ==
    /\ tools = EmptyMap
    /\ last = NoCall
    /\ stdin = <<>>
    /\ stdout = <<>>
    /\ run = RunIdle
    /\ config \in Configs
    /\ server = "serving"
    /\ now = 0
    /\ sessions = EmptyMap
    /\ nextID = 1
    /\ mux = MuxFree
    /\ reaper = "sleep"
    /\ pc = [p \in Procs |-> "idle"]
    /\ req = [p \in Procs |-> NoRequest]
    /\ resp = [p \in Procs |-> NoResponse]

\* The transport once main has registered its tools.
InitServing ==
    /\ tools = ServingRegistry
    /\ last = NoCall
    /\ stdin = <<>>
    /\ stdout = <<>>
    /\ run = RunIdle
    /\ config \in Configs
    /\ server = "serving"
    /\ now = 0
    /\ sessions = EmptyMap
    /\ nextID = 1
    /\ mux = MuxFree
    /\ reaper = "sleep"
    /\ pc = [p \in Procs |-> "idle"]
    /\ req = [p \in Procs |-> NoRequest]
    /\ resp = [p \in Procs |-> NoResponse]

\* main has registered its tools and called Run on some input.
InitStdio ==
    /\ tools = ServingRegistry
    /\ last = NoCall
    /\ stdin \in Inputs
    /\ stdout = <<>>
    /\ run = [pc |-> "scan", pos |-> 0, err |-> Nil]
    /\ config = [CORSEnabled |-> TRUE, CORSOrigins |-> <<"*">>]
    /\ server = "serving"
    /\ now = 0
    /\ sessions = EmptyMap
    /\ nextID = 1
    /\ mux = MuxFree
    /\ reaper = "sleep"
    /\ pc = [p \in Procs |-> "idle"]
    /\ req = [p \in Procs |-> NoRequest]
    /\ resp = [p \in Procs |-> NoResponse]

\* Either transport, with main's tools, under any CORS configuration.
InitCORS ==
    /\ tools = ServingRegistry
    /\ last = NoCall
    /\ stdin = <<>>
    /\ stdout = <<>>
    /\ run = RunIdle
    /\ config \in CORSConfigs
    /\ server = "serving"
    /\ now = 0
    /\ sessions = EmptyMap
    /\ nextID = 1
    /\ mux = MuxFree
    /\ reaper = "sleep"
    /\ pc = [p \in Procs |-> "idle"]
    /\ req = [p \in Procs |-> NoRequest]
    /\ resp = [p \in Procs |-> NoResponse]

\* The streamable transport under its default configuration, with main's
\* tools.
InitDefault ==
    /\ tools = ServingRegistry
    /\ last = NoCall
    /\ stdin = <<>>
    /\ stdout = <<>>
    /\ run = RunIdle
    /\ config = [CORSEnabled |-> TRUE, CORSOrigins |-> <<"*">>]
    /\ server = "serving"
    /\ now = 0
    /\ sessions = EmptyMap
    /\ nextID = 1
    /\ mux = MuxFree
    /\ reaper = "sleep"
    /\ pc = [p \in Procs |-> "idle"]
    /\ req = [p \in Procs |-> NoRequest]
    /\ resp = [p \in Procs |-> NoResponse]

serverVars == <<tools, last, stdin, stdout, run>>
stdioVars == <<stdin, stdout, run>>
storeVars == <<sessions, nextID, mux>>
procVars == <<pc, req, resp>>

-----------------------------------------------------------------------------
(* Actions *)

\* Variant: a registration that keeps the handler already registered.
RegisterTool_KeepFirst(name, handler) ==
    /\ tools' = [n \in DOMAIN tools \cup {name} |->
                    IF n \in DOMAIN tools THEN tools[n] ELSE handler]
    /\ last' = [last EXCEPT !.reg = [name |-> name, handler |-> handler]]
    /\ UNCHANGED <<stdioVars, config, server, now, storeVars, reaper, procVars>>

\* Server.RegisterTool
RegisterTool(name, handler) ==
    /\ tools' = [n \in DOMAIN tools \cup {name} |-> IF n = name THEN handler ELSE tools[n]]
    /\ last' = [last EXCEPT !.reg = [name |-> name, handler |-> handler]]
    /\ UNCHANGED <<stdioVars, config, server, now, storeVars, reaper, procVars>>

\* time passes
Tick ==
    /\ now < MaxTime
    /\ now' = now + 1
    /\ UNCHANGED <<serverVars, config, server, storeVars, reaper, procVars>>

\* A request arrives at goroutine p: corsMiddleware, then handleMCP up to the
\* first access to the session store.
Arrive(p, r) ==
    /\ server = "serving"
    /\ pc[p] = "idle"
    /\ LET out == serveHTTP(config, tools, r)
       IN  /\ out.pc = "create" => nextID <= MaxSessions
           /\ pc' = [pc EXCEPT ![p] = out.pc]
           /\ resp' = [resp EXCEPT ![p] = out.w]
    /\ req' = [req EXCEPT ![p] = r]
    /\ UNCHANGED <<serverVars, config, server, now, storeVars, reaper>>

\* isValidSession: t.sessionsMux.RLock()
ValidateLock(p) ==
    /\ pc[p] = "rlock"
    /\ CanRLock
    /\ mux' = [mux EXCEPT !.readers = @ \cup {p}]
    /\ pc' = [pc EXCEPT ![p] = "validating"]
    /\ resp' = [resp EXCEPT ![p] = Enter(@, "isValidSession")]
    /\ UNCHANGED <<serverVars, config, server, now, sessions, nextID, reaper, req>>

\* isValidSession: the check and the deferred RUnlock; handleMCP goes on to
\* its rejection or to updateSessionActivity.
Validate(p) ==
    /\ pc[p] = "validating"
    /\ mux' = [mux EXCEPT !.readers = @ \ {p}]
    /\ pc' = [pc EXCEPT ![p] =
                IF isValidSession(sessions, req[p].sid, now) THEN "wlock" ELSE "reject"]
    /\ resp' = [resp EXCEPT ![p].checkedAt = now,
                            ![p].early =
                                /\ req[p].sid \in DOMAIN sessions
                                /\ sessions[req[p].sid].Active
                                /\ now < sessions[req[p].sid].LastSeen + SessionTimeout]
    /\ UNCHANGED <<serverVars, config, server, now, sessions, nextID, reaper, req>>

\* handleMCP: isValidSession returned false; http.Error 401 and return.
Reject(p) ==
    /\ pc[p] = "reject"
    /\ pc' = [pc EXCEPT ![p] = "done"]
    /\ resp' = [resp EXCEPT ![p] = httpError(@, StatusUnauthorized)]
    /\ UNCHANGED <<serverVars, config, server, now, storeVars, reaper, req>>

\* updateSessionActivity: t.sessionsMux.Lock()
TouchLock(p) ==
    /\ pc[p] = "wlock"
    /\ CanLock
    /\ mux' = [mux EXCEPT !.writer = p]
    /\ pc' = [pc EXCEPT ![p] = "touching"]
    /\ resp' = [resp EXCEPT ![p] = Enter(@, "updateSessionActivity")]
    /\ UNCHANGED <<serverVars, config, server, now, sessions, nextID, reaper, req>>

\* updateSessionActivity: the write and the deferred Unlock.
Touch(p) ==
    /\ pc[p] = "touching"
    /\ sessions' = updateSessionActivity(sessions, req[p].sid, now)
    /\ mux' = [mux EXCEPT !.writer = "none"]
    /\ pc' = [pc EXCEPT ![p] = "route"]
    /\ resp' = [resp EXCEPT ![p].early = FALSE]
    /\ UNCHANGED <<serverVars, config, server, now, nextID, reaper, req>>

\* handleMCP after updateSessionActivity has returned: the method switch and
\* the handler it selects (handlePOST to its response, handleGET to the
\* stream's select loop).
Route(p) ==
    /\ pc[p] = "route"
    /\ LET out == route(tools, req[p], req[p].sid, resp[p])
       IN  /\ pc' = [pc EXCEPT ![p] = out.pc]
           /\ resp' = [resp EXCEPT ![p] = out.w]
    /\ UNCHANGED <<serverVars, config, server, now, storeVars, reaper, req>>

\* createSession: t.sessionsMux.Lock()
CreateLock(p) ==
    /\ pc[p] = "create"
    /\ CanLock
    /\ mux' = [mux EXCEPT !.writer = p]
    /\ pc' = [pc EXCEPT ![p] = "creating"]
    /\ resp' = [resp EXCEPT ![p] = Enter(@, "createSession")]
    /\ UNCHANGED <<serverVars, config, server, now, sessions, nextID, reaper, req>>

\* createSession: the insertion (time.Now() is read twice, the clock may
\* advance in between) and the deferred Unlock; the id is returned to
\* handleGET.
CreateSession(p) ==
    /\ pc[p] = "creating"
    /\ \E d \in {0, 1} :
        /\ now + d <= MaxTime
        /\ sessions' = createSession(sessions, nextID, now, now + d)
        /\ now' = now + d
    /\ nextID' = nextID + 1
    /\ mux' = [mux EXCEPT !.writer = "none"]
    /\ pc' = [pc EXCEPT ![p] = "open"]
    /\ resp' = [resp EXCEPT ![p].sessionID = nextID]
    /\ UNCHANGED <<serverVars, config, server, reaper, req>>

\* handleGET after createSession has returned: setupSSEStream up to its
\* select loop.
OpenStream(p) ==
    /\ pc[p] = "open"
    /\ pc' = [pc EXCEPT ![p] = "stream"]
    /\ resp' = [resp EXCEPT ![p] = setupSSEStream(@, @.sessionID)]
    /\ UNCHANGED <<serverVars, config, server, now, storeVars, reaper, req>>

\* Variant: a heartbeat that refreshes the stream's session.
Heartbeat_Touching(p) ==
    /\ pc[p] = "stream"
    /\ Len(resp[p].events) <= MaxFrames
    /\ resp' = [resp EXCEPT ![p].events = Append(@, [event |-> "heartbeat", data |-> 0])]
    /\ sessions' = updateSessionActivity(sessions, resp[p].sessionHdr, now)
    /\ UNCHANGED <<serverVars, config, server, now, nextID, mux, reaper, pc, req>>

\* setupSSEStream: case <-ticker.C
Heartbeat(p) ==
    /\ pc[p] = "stream"
    /\ Len(resp[p].events) <= MaxFrames
    /\ resp' = [resp EXCEPT ![p].events = Append(@, [event |-> "heartbeat", data |-> 0])]
    /\ UNCHANGED <<serverVars, config, server, now, storeVars, reaper, pc, req>>

\* The request's context is cancelled (the client disconnects).
CtxCancel(p) ==
    /\ pc[p] = "stream"
    /\ ~resp[p].ctxDone
    /\ resp' = [resp EXCEPT ![p].ctxDone = TRUE]
    /\ UNCHANGED <<serverVars, config, server, now, storeVars, reaper, pc, req>>

\* Variant: a stream loop that waits on its ticker alone and never reads
\* the context.
StreamReturn_TickerOnly(p) ==
    /\ pc[p] = "stream"
    /\ FALSE
    /\ UNCHANGED vars

\* setupSSEStream: case <-ctx.Done()
StreamReturn(p) ==
    /\ pc[p] = "stream"
    /\ resp[p].ctxDone
    /\ pc' = [pc EXCEPT ![p] = "done"]
    /\ UNCHANGED <<serverVars, config, server, now, storeVars, reaper, req, resp>>

\* The handler has returned and its goroutine ends.
Return(p) ==
    /\ pc[p] = "done"
    /\ pc' = [pc EXCEPT ![p] = "idle"]
    /\ req' = [req EXCEPT ![p] = NoRequest]
    /\ resp' = [resp EXCEPT ![p] = NoResponse]
    /\ UNCHANGED <<serverVars, config, server, now, storeVars, reaper>>

\* cleanupExpiredSessions: a tick of its ticker, t.sessionsMux.Lock()
ReaperLock ==
    /\ reaper = "sleep"
    /\ CanLock
    /\ mux' = [mux EXCEPT !.writer = "reaper"]
    /\ reaper' = "sweep"
    /\ UNCHANGED <<serverVars, config, server, now, sessions, nextID, procVars>>

\* cleanupExpiredSessions: the sweep and Unlock
ReaperSweep ==
    /\ reaper = "sweep"
    /\ sessions' = sweepExpired(sessions, now)
    /\ mux' = [mux EXCEPT !.writer = "none"]
    /\ reaper' = "sleep"
    /\ UNCHANGED <<serverVars, config, server, now, nextID, procVars>>

\* StreamableHTTPTransport.Stop: t.server.Shutdown(ctx) is called.  The
\* listener is closed and idle connections are closed, so no further
\* request arrives; the contexts of the requests being served are left as
\* they are.
Stop ==
    /\ server = "serving"
    /\ server' = "draining"
    /\ UNCHANGED <<serverVars, config, now, storeVars, reaper, procVars>>

\* Shutdown finds no request being served and returns nil.
StopReturn ==
    /\ server = "draining"
    /\ \A p \in Procs : pc[p] = "idle"
    /\ server' = "stopped"
    /\ UNCHANGED <<serverVars, config, now, storeVars, reaper, procVars>>

\* The caller's context ends while a request is still being served and
\* Shutdown returns ctx.Err().
StopDeadline ==
    /\ server = "draining"
    /\ \E p \in Procs : pc[p] # "idle"
    /\ server' = "expired"
    /\ UNCHANGED <<serverVars, config, now, storeVars, reaper, procVars>>

\* A step of goroutine p in serving its request
Handle(p) ==
    \/ ValidateLock(p)
    \/ Validate(p)
    \/ Reject(p)
    \/ TouchLock(p)
    \/ Touch(p)
    \/ Route(p)
    \/ CreateLock(p)
    \/ CreateSession(p)
    \/ OpenStream(p)
    \/ Heartbeat(p)
    \/ CtxCancel(p)
    \/ StreamReturn(p)
    \/ Return(p)

\* One goroutine's step
Step(p) ==
    \/ \E r \in Requests : Arrive(p, r)
    \/ Handle(p)

\* The streamable transport serving one request at a time, with the clock
\* and the reaper running beside it.
Next ==
    \/ Tick
    \/ Step("r1")
    \/ ReaperLock
    \/ ReaperSweep

Spec == InitServing /\ [][Next]_vars

\* The streamable transport serving two requests at a time (net/http runs
\* each request on a goroutine of its own), the requests being those that
\* use the session store: readers beside readers, and each writer
\* (createSession, updateSessionActivity, the reaper) beside readers and
\* writers.
NextConc ==
    \/ Tick
    \/ \E p \in Procs :
          \/ \E r \in ConcRequests(p) : Arrive(p, r)
          \/ Handle(p)
    \/ ReaperLock
    \/ ReaperSweep

SpecConc == InitDefault /\ [][NextConc]_vars

\* The streamable transport under fair scheduling.  The clock advances
\* (up to the bound of the model).  The reaper's ticker fires again and
\* again and its Lock is granted in the end, however often requests take
\* the lock in between (a waiting sync.RWMutex writer holds new readers
\* back, and sync.Mutex hands the lock to a starving waiter), so the
\* fairness of ReaperLock is strong.  A goroutine inside a critical section
\* does no blocking call and goes on to its Unlock.
NextLive ==
    \/ Tick
    \/ \E r \in ConcRequests("r1") : Arrive("r1", r)
    \/ Handle("r1")
    \/ ReaperLock
    \/ ReaperSweep

SpecLive ==
    /\ InitDefault
    /\ [][NextLive]_vars
    /\ WF_vars(Tick)
    /\ SF_vars(ReaperLock)
    /\ WF_vars(ReaperSweep)
    /\ WF_vars(Validate("r1"))
    /\ WF_vars(Touch("r1"))
    /\ WF_vars(CreateSession("r1"))

\* The streamable transport from construction to Stop, under fair
\* scheduling.  The goroutines of the runtime are scheduled fairly: a
\* handler that can take its next step takes it, the stream loop's select
\* takes the ctx.Done case once the context is done, the reaper's ticker
\* fires and its Lock is granted (strongly fair, as in SpecLive), and
\* Shutdown returns once nothing is being served or once the caller's
\* context ends.  What clients and callers do is not under the scheduler:
\* the arrival of a request, a client's disconnect (CtxCancel) and the call
\* of Stop carry no fairness.
NextLifecycle ==
    \/ Tick
    \/ \E r \in ConcRequests("r1") : Arrive("r1", r)
    \/ Handle("r1")
    \/ ReaperLock
    \/ ReaperSweep
    \/ Stop
    \/ StopReturn
    \/ StopDeadline

SpecLifecycle ==
    /\ InitDefault
    /\ [][NextLifecycle]_vars
    /\ WF_vars(Tick)
    /\ SF_vars(ReaperLock)
    /\ WF_vars(ReaperSweep)
    /\ WF_vars(ValidateLock("r1"))
    /\ WF_vars(Validate("r1"))
    /\ WF_vars(Reject("r1"))
    /\ WF_vars(TouchLock("r1"))
    /\ WF_vars(Touch("r1"))
    /\ WF_vars(Route("r1"))
    /\ WF_vars(CreateLock("r1"))
    /\ WF_vars(CreateSession("r1"))
    /\ WF_vars(OpenStream("r1"))
    /\ WF_vars(StreamReturn("r1"))
    /\ WF_vars(Return("r1"))
    /\ WF_vars(StopReturn)
    /\ WF_vars(StopDeadline)

-----------------------------------------------------------------------------
(* The dispatch engine called directly (as the tests do): registrations    *)
(* and HandleRequest calls in any order.                                   *)

\* The outcome of the call before this one, as last.prev records it: none
\* before any call, a result, or an error with its code.
OutcomeOf(response) ==
    IF response = Nil THEN [t |-> "none"]
    ELSE IF response.Error = Nil THEN [t |-> "ok"]
    ELSE [t |-> "error", code |-> response.Error.Code]

\* A test calls HandleRequest on the Server.
Call(request) ==
    /\ LET out == HandleRequest(tools, request)
       IN  /\ tools' = out.tools
           /\ last' = [last EXCEPT !.request = request, !.response = out.response,
                                     !.calls = out.calls, !.registry = tools,
                                     !.prev = OutcomeOf(last.response)]
    /\ UNCHANGED <<stdioVars, config, server, now, storeVars, reaper, procVars>>

\* A HandleRequest call in a history of calls on one Server: as Call, and
\* last.answered keeps for each request the response of its first call and
\* whether the request was called again.
CallInHistory(request) ==
    /\ LET out == HandleRequest(tools, request)
           seen == last.answered
       IN  /\ tools' = out.tools
           /\ last' = [last EXCEPT
                  !.request = request, !.response = out.response,
                  !.calls = out.calls, !.registry = tools,
                  !.prev = OutcomeOf(last.response),
                  !.answered =
                     [q \in DOMAIN seen \cup {request} |->
                        IF q # request THEN seen[q]
                        ELSE IF request \in DOMAIN seen
                             THEN [seen[request] EXCEPT !.again = TRUE]
                             ELSE [response |-> out.response, again |-> FALSE]]]
    /\ UNCHANGED <<stdioVars, config, server, now, storeVars, reaper, procVars>>

\* handlePOST called on its own, over any registry.
POST(p, r) ==
    /\ pc[p] = "idle"
    /\ pc' = [pc EXCEPT ![p] = "done"]
    /\ req' = [req EXCEPT ![p] = r]
    /\ resp' = [resp EXCEPT ![p] = handlePOST(tools, r, r.sid, NoResponse)]
    /\ UNCHANGED <<serverVars, config, server, now, storeVars, reaper>>

NextPOST ==
    \/ \E n \in ToolNames, h \in Handlers : RegisterTool(n, h)
    \/ \E r \in POSTRequests : POST("r1", r)
    \/ Return("r1")

SpecPOST == Init /\ [][NextPOST]_vars

\* Run: scanner.Scan() delivers a line; the loop body answers it.
RunScan ==
    /\ run.pc = "scan"
    /\ run.pos < Len(stdin)
    /\ stdin[run.pos + 1].t # "long"
    /\ LET out == runLine(tools, stdin[run.pos + 1], stdout)
       IN  /\ stdout' = out.out
           /\ run' = [run EXCEPT !.pc = out.pc, !.pos = @ + 1]
    /\ UNCHANGED <<tools, last, stdin, config, server, now, storeVars, reaper, procVars>>

\* Run: scanner.Scan() returns false at the end of the input; Run returns nil.
RunEOF ==
    /\ run.pc = "scan"
    /\ run.pos = Len(stdin)
    /\ run' = [run EXCEPT !.pc = "returned"]
    /\ UNCHANGED <<tools, last, stdin, stdout, config, server, now, storeVars, reaper, procVars>>

\* Run: scanner.Scan() returns false on a line that overflows its buffer;
\* Run returns scanner.Err() = bufio.ErrTooLong.
RunTooLong ==
    /\ run.pc = "scan"
    /\ run.pos < Len(stdin)
    /\ stdin[run.pos + 1].t = "long"
    /\ run' = [run EXCEPT !.pc = "returned",
                          !.err = [t |-> "error", msg |-> "bufio.Scanner: token too long"]]
    /\ UNCHANGED <<tools, last, stdin, stdout, config, server, now, storeVars, reaper, procVars>>

NextStdio == RunScan \/ RunEOF \/ RunTooLong

SpecStdio == InitStdio /\ [][NextStdio]_vars

NextDispatch ==
    \/ \E n \in ToolNames, h \in Handlers : RegisterTool(n, h)
    \/ \E request \in MCPRequests : Call(request)

SpecDispatch == Init /\ [][NextDispatch]_vars

\* Histories of HandleRequest calls on one Server whose registrations are
\* done: an empty registry, one tool, or two tools of which the second
\* always fails; then calls in any order, of one request for each outcome
\* of HandleRequest (a list, an unknown method, a result, a handler failure,
\* an unknown or failing second tool, unusable params).
InitHistory ==
    /\ tools \in {EmptyMap,
                  [n \in {"basic_math"} |-> "hAdd"],
                  [n \in {"basic_math", "custom"} |->
                      IF n = "basic_math" THEN "hAdd" ELSE "hFail"]}
    /\ last = NoCall
    /\ stdin = <<>>
    /\ stdout = <<>>
    /\ run = RunIdle
    /\ config = [CORSEnabled |-> TRUE, CORSOrigins |-> <<"*">>]
    /\ server = "serving"
    /\ now = 0
    /\ sessions = EmptyMap
    /\ nextID = 1
    /\ mux = MuxFree
    /\ reaper = "sleep"
    /\ pc = [p \in Procs |-> "idle"]
    /\ req = [p \in Procs |-> NoRequest]
    /\ resp = [p \in Procs |-> NoResponse]

SpecHistory ==
    /\ InitHistory
    /\ [][\E request \in
              {MCPRequest(Num1, "tools/list", FieldAbsent),
               MCPRequest(Num1, "resources/list", FieldAbsent),
               MCPRequest(Num1, "tools/call", ParamsObject(Str("basic_math"), Args("good"))),
               MCPRequest(Num1, "tools/call", ParamsObject(Str("basic_math"), Args("bad"))),
               MCPRequest(Num1, "tools/call", ParamsObject(Str("custom"), Args("good"))),
               MCPRequest(Num1, "tools/call", [t |-> "array"])} :
           CallInHistory(request)]_vars

-----------------------------------------------------------------------------
(* The plain HTTP transport serving requests over main's registry.         *)

\* A request is served by goroutine p: corsMiddleware, the ServeMux, the
\* route's handler.
Plain(p, r) ==
    /\ pc[p] = "idle"
    /\ pc' = [pc EXCEPT ![p] = "done"]
    /\ req' = [req EXCEPT ![p] = r]
    /\ resp' = [resp EXCEPT ![p] = plainServeHTTP(config, tools, r)]
    /\ UNCHANGED <<serverVars, config, server, now, storeVars, reaper>>

NextPlain ==
    \/ \E r \in PlainRequests : Plain("r1", r)
    \/ Return("r1")

SpecPlain == InitServing /\ [][NextPlain]_vars

\* The CORS layer of both transports, under every allow-list and origin.
NextCORS ==
    \/ \E r \in CORSRequests : Arrive("r1", r)
    \/ \E r \in PlainCORSRequests : Plain("r1", r)
    \/ Return("r1")

SpecCORS == InitCORS /\ [][NextCORS]_vars

\* Both transports in one process over one dispatch engine: the streamable
\* transport with its clock and reaper, and plain-transport requests served
\* beside it.
NextBoth ==
    \/ Next
    \/ \E r \in PlainBesideRequests : Plain("r1", r)

SpecBoth == InitServing /\ [][NextBoth]_vars

\* Every producer of a non-streaming response, each driven on its own: Run
\* over an input (the stdio transport), or, on a Server that main has set up
\* and that does not run the stdio loop, requests to the plain transport
\* and to the streamable transport's POST handler, or direct HandleRequest
\* calls.
SpecOutcomes ==
    /\ InitStdio \/ InitServing
    /\ [][\/ RunScan
          \/ RunEOF
          \/ RunTooLong
          \/ run = RunIdle /\ last = NoCall /\ \E r \in PlainRequests : Plain("r1", r)
          \/ run = RunIdle /\ last = NoCall /\ \E r \in POSTRequests : POST("r1", r)
          \/ Return("r1")
          \/ run = RunIdle /\ pc["r1"] = "idle" /\ \E request \in MCPRequests : Call(request)
         ]_vars

-----------------------------------------------------------------------------
(* Properties.  A request's headers are read off req[p], what serving it   *)
(* did off resp[p]; a request is answered once pc[p] = "done".             *)

AcceptsJSON(r) == "application/json" \in r.accept
AcceptsSSE(r) == "text/event-stream" \in r.accept

\* The request body is a JSON document that json.Unmarshal stores into an
\* MCPRequest: the JSON null, or an object whose method is not a number.
BodyParses(r) ==
    \/ r.body.t = "null"
    \/ r.body.t = "object" /\ r.body.method.t # "num"

\* The request body was read and is not such a document.
BodyUnparsable(r) ==
    \/ r.body.t \in {"garbage", "array", "spaces"}
    \/ r.body.t = "object" /\ r.body.method.t = "num"

BodyMethod(r) ==
    IF r.body.t = "object" /\ r.body.method.t = "str" THEN r.body.method.v ELSE ""

\* params that json.Unmarshal cannot store into {name string, arguments map}
Malformed(raw) ==
    \/ raw.t \in {"absent", "garbage", "array"}
    \/ raw.t = "object" /\ (raw.name.t \in {"num", "array"} \/ raw.arguments.t \in {"num", "array"})

\* The answer to the request of p came from handleMCP or below it.
NoHandlerRan(w) ==
    /\ ~Entered(w, "handlePOST")
    /\ ~Entered(w, "handleGET")
    /\ ~Entered(w, "HandleRequest")
    /\ ~Entered(w, "createSession")
    /\ w.calls = <<>>
    /\ w.events = <<>>

\* C1 as stated: every answered request that lacks the MCP-Protocol-Version
\* header has been answered with HTTP 400, whatever its method, headers, body.
C1_MissingVersionAlways400 ==
    \A p \in Procs :
        (pc[p] = "done" /\ req[p].pv = "") => resp[p].status = StatusBadRequest

\* C1 amended: a request without the MCP-Protocol-Version header is answered
\* with HTTP 400 and no handler runs, whatever its method, headers and body,
\* except an OPTIONS request while CORS is enabled, which corsMiddleware
\* answers with HTTP 200 before handleMCP is reached.
C1_MissingVersion ==
    \A p \in Procs :
        (pc[p] # "idle" /\ req[p].pv = "") =>
            /\ pc[p] = "done"
            /\ NoHandlerRan(resp[p])
            /\ ~Entered(resp[p], "isValidSession")
            /\ IF config.CORSEnabled /\ req[p].method = "OPTIONS"
               THEN resp[p].status = StatusOK /\ ~Entered(resp[p], "handleMCP")
               ELSE resp[p].status = StatusBadRequest /\ resp[p].kind = "text"

\* C1 witness: an OPTIONS request without the header, carrying a session id,
\* answered 400 by handleMCP (CORS disabled).
C1_Witness ==
    \E p \in Procs :
        /\ pc[p] = "done"
        /\ req[p].pv = ""
        /\ req[p].method = "OPTIONS"
        /\ req[p].sid # 0
        /\ ~config.CORSEnabled
        /\ resp[p].status = StatusBadRequest

\* The session check of handleMCP rejects id in this store at this time: the
\* id is not in the store, names an inactive session, or names a session
\* whose LastSeen is older than the timeout.
StoreRejects(store, id, t) ==
    \/ id \notin DOMAIN store
    \/ ~store[id].Active
    \/ t - store[id].LastSeen > SessionTimeout

\* C2: a request that reaches handleMCP with the protocol-version header and
\* a session id goes to the session check before anything else, and when the
\* check finds the id absent from the store, inactive or older than the
\* timeout, the request is answered 401 and neither handlePOST nor handleGET
\* runs nor is HandleRequest invoked.
C2_InvalidSessionRejected ==
    [][\A p \in Procs :
        /\ (/\ pc[p] = "idle"
            /\ pc'[p] # "idle"
            /\ Entered(resp'[p], "handleMCP")
            /\ req'[p].pv # ""
            /\ req'[p].sid # 0)
           => (pc'[p] = "rlock" /\ resp'[p].status = 0 /\ NoHandlerRan(resp'[p]))
        /\ (/\ pc[p] = "validating"
            /\ pc'[p] # "validating"
            /\ StoreRejects(sessions, req[p].sid, now))
           => /\ pc'[p] = "reject"
              /\ resp'[p].status = 0
              /\ NoHandlerRan(resp'[p])
              /\ sessions' = sessions
        /\ (pc[p] = "reject" /\ pc'[p] # "reject")
           => /\ pc'[p] = "done"
              /\ resp'[p].status = StatusUnauthorized
              /\ resp'[p].kind = "text"
              /\ NoHandlerRan(resp'[p])
              /\ sessions' = sessions
      ]_vars

\* C2 witness: a request rejected 401 for a session that is still in the
\* store but older than the timeout.
C2_Witness ==
    \E p \in Procs :
        /\ pc[p] = "done"
        /\ resp[p].status = StatusUnauthorized
        /\ req[p].sid \in DOMAIN sessions
        /\ resp[p].checkedAt - sessions[req[p].sid].LastSeen > SessionTimeout
        /\ NoHandlerRan(resp[p])

\* C3, its first half: a validation check of a stored session at a time T'
\* with T' < lastSeenAt + D succeeds, and the touch of the request refreshes
\* lastSeenAt: when the touch is done the session is in the store, last seen
\* at T' or later.
C3_CheckRefreshes ==
    [][\A p \in Procs :
        /\ (/\ pc[p] = "validating"
            /\ pc'[p] # "validating"
            /\ req[p].sid \in DOMAIN sessions
            /\ sessions[req[p].sid].Active
            /\ now < sessions[req[p].sid].LastSeen + SessionTimeout)
           => pc'[p] = "wlock"
        /\ (/\ pc[p] = "touching"
            /\ pc'[p] # "touching"
            /\ resp[p].early)
           => /\ req[p].sid \in DOMAIN sessions'
              /\ sessions'[req[p].sid].LastSeen >= resp[p].checkedAt
      ]_vars

\* C4: whenever a request whose session passed the check performs its touch,
\* the session is in the store afterwards with lastSeenAt equal to the time
\* of the touch, under every interleaving with the reaper.
C4_TouchTakesEffect ==
    [][\A p \in Procs :
        (pc[p] = "touching" /\ pc'[p] # "touching")
        => /\ req[p].sid \in DOMAIN sessions'
           /\ sessions'[req[p].sid].LastSeen = now
      ]_vars

\* C5 as stated, its timestamps: every session in the store was created with
\* createdAt = lastSeenAt = now.
C5_CreatedEqualsLastSeen ==
    [][\A id \in DOMAIN sessions' \ DOMAIN sessions :
        /\ sessions'[id].CreatedAt = sessions'[id].LastSeen
        /\ sessions'[id].LastSeen = now'
      ]_vars

\* C5 amended: a session is added to the store only by a GET with the
\* protocol-version header, an Accept including text/event-stream and no
\* session id; such a GET goes to createSession and adds exactly one new
\* active session, whose createdAt and lastSeenAt are two successive clock
\* readings (createdAt <= lastSeenAt), and returns its id in Mcp-Session-Id.
\* No POST and no GET that supplies a session id adds a session.
C5_SessionCreation ==
    [][/\ \A p \in Procs :
            (/\ pc[p] = "idle"
             /\ pc'[p] # "idle"
             /\ req'[p].method = "GET"
             /\ req'[p].pv # ""
             /\ AcceptsSSE(req'[p])
             /\ req'[p].sid = 0)
            => (pc'[p] = "create" /\ sessions' = sessions)
       /\ \A p \in Procs :
            (pc[p] = "creating" /\ pc'[p] # "creating")
            => \E id \in DOMAIN sessions' \ DOMAIN sessions :
                /\ DOMAIN sessions' = DOMAIN sessions \cup {id}
                /\ \A other \in DOMAIN sessions : sessions'[other] = sessions[other]
                /\ pc'[p] = "open"
                /\ resp'[p].sessionID = id
       /\ \A p \in Procs :
            (pc[p] = "open" /\ pc'[p] # "open")
            => /\ pc'[p] = "stream"
               /\ resp'[p].sessionHdr = resp[p].sessionID
               /\ sessions' = sessions
       /\ \A id \in DOMAIN sessions' \ DOMAIN sessions :
            /\ sessions'[id].Active
            /\ sessions'[id].ID = id
            /\ now <= sessions'[id].CreatedAt
            /\ sessions'[id].CreatedAt <= sessions'[id].LastSeen
            /\ sessions'[id].LastSeen <= now'
            /\ \E p \in Procs :
                /\ pc[p] = "creating"
                /\ pc'[p] = "open"
                /\ req[p].method = "GET"
                /\ req[p].pv # ""
                /\ AcceptsSSE(req[p])
                /\ req[p].sid = 0
                /\ resp'[p].sessionID = id
      ]_vars

\* C5 witness: a GET without session id has opened its stream on a session
\* whose two timestamps differ.
C5_Witness ==
    \E p \in Procs :
        /\ pc[p] = "stream"
        /\ req[p].sid = 0
        /\ resp[p].sessionHdr \in DOMAIN sessions
        /\ sessions[resp[p].sessionHdr].CreatedAt < sessions[resp[p].sessionHdr].LastSeen

\* C6: for every POST handled by handlePOST with an acceptable Accept whose
\* body parses as a request, the response is exactly one SSE "message" event
\* if and only if Accept includes text/event-stream and the method is
\* tools/call; for every other method it is a plain JSON body, even when SSE
\* is accepted.
C6_SSEOnlyForToolsCall ==
    \A p \in Procs :
        (/\ pc[p] = "done"
         /\ Entered(resp[p], "handlePOST")
         /\ AcceptsJSON(req[p]) \/ AcceptsSSE(req[p])
         /\ BodyParses(req[p]))
        => IF AcceptsSSE(req[p]) /\ BodyMethod(req[p]) = "tools/call"
           THEN /\ resp[p].kind = "sse"
                /\ Len(resp[p].events) = 1
                /\ resp[p].events[1].event = "message"
                /\ resp[p].rpc = Nil
           ELSE /\ resp[p].kind = "json"
                /\ resp[p].events = <<>>
                /\ resp[p].rpc # Nil

\* C6 witness: a tools/list POST that accepts SSE was answered in plain JSON.
C6_Witness ==
    \E p \in Procs :
        /\ pc[p] = "done"
        /\ Entered(resp[p], "handlePOST")
        /\ AcceptsSSE(req[p])
        /\ BodyMethod(req[p]) = "tools/list"
        /\ resp[p].kind = "json"
        /\ resp[p].rpc.Result # Nil

\* C7: when handlePOST reads a body that fails to parse as a request, the
\* response is a JSON-RPC error with code InvalidRequest in a plain JSON
\* body, never SSE, whether or not Accept includes text/event-stream, and
\* HandleRequest is not invoked.
C7_ParseFailureIsJSON ==
    \A p \in Procs :
        (/\ pc[p] = "done"
         /\ Entered(resp[p], "handlePOST")
         /\ AcceptsJSON(req[p]) \/ AcceptsSSE(req[p])
         /\ BodyUnparsable(req[p]))
        => /\ resp[p].kind = "json"
           /\ resp[p].events = <<>>
           /\ resp[p].rpc # Nil
           /\ resp[p].rpc.Error # Nil
           /\ resp[p].rpc.Error.Code = ErrorCodeInvalidRequest
           /\ resp[p].rpc.Result = Nil
           /\ ~Entered(resp[p], "HandleRequest")
           /\ ~Entered(resp[p], "writeSSEResponse")
           /\ resp[p].calls = <<>>

\* C7 witness: a POST accepting only SSE whose body has a number for method
\* was answered with the InvalidRequest error in JSON.
C7_Witness ==
    \E p \in Procs :
        /\ pc[p] = "done"
        /\ req[p].accept = {"text/event-stream"}
        /\ req[p].body.t = "object"
        /\ BodyUnparsable(req[p])
        /\ resp[p].kind = "json"
        /\ resp[p].rpc.Error.Code = ErrorCodeInvalidRequest

\* C8: a POST handled by handlePOST whose Accept names neither
\* application/json nor text/event-stream is rejected with HTTP 400 before
\* the body is read, and HandleRequest is not invoked.
C8_UnacceptablePOST ==
    \A p \in Procs :
        (/\ pc[p] = "done"
         /\ Entered(resp[p], "handlePOST")
         /\ ~AcceptsJSON(req[p])
         /\ ~AcceptsSSE(req[p]))
        => /\ resp[p].status = StatusBadRequest
           /\ resp[p].kind = "text"
           /\ ~Entered(resp[p], "io.ReadAll")
           /\ ~Entered(resp[p], "HandleRequest")
           /\ resp[p].calls = <<>>
           /\ resp[p].rpc = Nil

\* C8 witness: a well-formed tools/call for a registered tool, sent with
\* Accept: text/html, was rejected with 400.
C8_Witness ==
    \E p \in Procs :
        /\ pc[p] = "done"
        /\ req[p].accept = {"text/html"}
        /\ BodyMethod(req[p]) = "tools/call"
        /\ req[p].body.params.t = "object"
        /\ "basic_math" \in DOMAIN tools
        /\ resp[p].status = StatusBadRequest

\* C9: a GET whose Accept does not include text/event-stream never reaches
\* createSession and emits no SSE frame, and when handleGET handles it, it is
\* rejected with HTTP 400.
C9_GETWithoutSSE ==
    \A p \in Procs :
        (/\ pc[p] # "idle"
         /\ req[p].method = "GET"
         /\ ~AcceptsSSE(req[p]))
        => /\ pc[p] \notin {"create", "creating", "open", "stream"}
           /\ ~Entered(resp[p], "createSession")
           /\ ~Entered(resp[p], "setupSSEStream")
           /\ resp[p].events = <<>>
           /\ resp[p].sessionHdr = 0
           /\ Entered(resp[p], "handleGET") =>
                /\ pc[p] = "done"
                /\ resp[p].status = StatusBadRequest
                /\ resp[p].kind = "text"

\* C9 witness: a GET on a valid session, accepting only JSON, was rejected
\* with 400 by handleGET.
C9_Witness ==
    \E p \in Procs :
        /\ pc[p] = "done"
        /\ req[p].method = "GET"
        /\ req[p].accept = {"application/json"}
        /\ req[p].sid \in DOMAIN sessions
        /\ Entered(resp[p], "handleGET")
        /\ resp[p].status = StatusBadRequest

\* C10: for every tools/call request whose params cannot be parsed into
\* {name, arguments}, HandleRequest returns error.code = InvalidParams with
\* result absent, and no tool handler is invoked.
C10_MalformedParams ==
    (last.request.Method = "tools/call" /\ Malformed(last.request.Params))
    => /\ last.response.Error # Nil
       /\ last.response.Error.Code = ErrorCodeInvalidParams
       /\ last.response.Result = Nil
       /\ last.response.ID = last.request.ID
       /\ last.calls = <<>>

\* C10 witness: a call of a registered tool whose arguments member is an
\* array was answered with InvalidParams.
C10_Witness ==
    /\ last.request.Method = "tools/call"
    /\ last.request.Params.t = "object"
    /\ last.request.Params.name = Str("basic_math")
    /\ last.request.Params.arguments.t = "array"
    /\ "basic_math" \in DOMAIN tools
    /\ last.response.Error # Nil
    /\ last.response.Error.Code = ErrorCodeInvalidParams

\* The tool name that well-formed params carry: the name member when it is a
\* string, the empty string when params is null or the member is absent or
\* null.
NameOf(raw) ==
    IF raw.t = "object" /\ raw.name.t = "str" THEN raw.name.v ELSE ""

\* The argument map that well-formed params carry.
ArgumentsOf(raw) ==
    IF raw.t = "object" /\ raw.arguments.t = "object" THEN raw.arguments.v ELSE "nil"

\* The latest HandleRequest call was a tools/call with well-formed params.
WellFormedCall ==
    /\ last.response # Nil
    /\ last.request.Method = "tools/call"
    /\ ~Malformed(last.request.Params)

\* C11: for every tools/call request with well-formed params naming a tool x
\* that is not in the registry, HandleRequest returns error.code =
\* MethodNotFound with error.data = x, result absent, and no handler invoked.
C11_ToolNotFound ==
    (WellFormedCall /\ NameOf(last.request.Params) \notin DOMAIN last.registry)
    => /\ last.response.Error # Nil
       /\ last.response.Error.Code = ErrorCodeMethodNotFound
       /\ last.response.Error.Data = NameOf(last.request.Params)
       /\ last.response.Result = Nil
       /\ last.calls = <<>>

\* C11 witness: a call of the unregistered tool "custom" while another tool
\* is registered was answered MethodNotFound with data "custom".
C11_Witness ==
    /\ WellFormedCall
    /\ NameOf(last.request.Params) = "custom"
    /\ DOMAIN last.registry = {"basic_math"}
    /\ last.response.Error # Nil
    /\ last.response.Error.Data = "custom"

\* C12: for every request whose method is none of initialize, tools/list,
\* tools/call, HandleRequest returns error.code = MethodNotFound with
\* error.data equal to the requested method string.
C12_MethodNotFound ==
    (/\ last.response # Nil
     /\ last.request.Method \notin {"initialize", "tools/list", "tools/call"})
    => /\ last.response.Error # Nil
       /\ last.response.Error.Code = ErrorCodeMethodNotFound
       /\ last.response.Error.Data = last.request.Method
       /\ last.response.Result = Nil
       /\ last.calls = <<>>

\* C12 witness: the method "Initialize" (wrong case) was answered
\* MethodNotFound with that string as data.
C12_Witness ==
    /\ last.response # Nil
    /\ last.request.Method = "Initialize"
    /\ last.response.Error # Nil
    /\ last.response.Error.Data = "Initialize"

\* C13: when the registered handler that a tools/call invokes returns a
\* failure, HandleRequest returns a response with error.code = InternalError,
\* error.data the failure's message and result absent.
C13_HandlerFailure ==
    (/\ WellFormedCall
     /\ NameOf(last.request.Params) \in DOMAIN last.registry
     /\ CallHandler(last.registry[NameOf(last.request.Params)],
                    ArgumentsOf(last.request.Params)).err # Nil)
    => /\ last.response.Error # Nil
       /\ last.response.Error.Code = ErrorCodeInternalError
       /\ last.response.Error.Data =
            CallHandler(last.registry[NameOf(last.request.Params)],
                        ArgumentsOf(last.request.Params)).err.msg
       /\ last.response.Result = Nil
       /\ Len(last.calls) = 1

\* C13 witness: the handler hAdd, called with arguments it rejects, failed and
\* the failure's message is the error's data.
C13_Witness ==
    /\ WellFormedCall
    /\ last.calls = <<[handler |-> "hAdd", arguments |-> "bad"]>>
    /\ last.response.Error # Nil
    /\ last.response.Error.Data = "hAdd: invalid arguments"

\* C14: for every registry and every registered tool name n, the tools/list
\* result contains exactly one entry whose name is n and no entry whose name
\* is not a registered name.
C14_ListMatchesRegistry ==
    (last.response # Nil /\ last.request.Method = "tools/list")
    => LET listed == last.response.Result.Tools
       IN  /\ \A n \in DOMAIN last.registry :
                Cardinality({k \in DOMAIN listed : listed[k].Name = n}) = 1
           /\ \A k \in DOMAIN listed : listed[k].Name \in DOMAIN last.registry

\* C15: RegisterTool overwrites: after any registration the registry holds
\* the registered handler under the registered name (one entry per name), and
\* a tools/call for a registered name invokes, once, the handler the registry
\* held for that name at the call, which is the one last registered.
C15_LastRegistrationWins ==
    /\ last.reg # Nil =>
        /\ last.reg.name \in DOMAIN tools
        /\ tools[last.reg.name] = last.reg.handler
    /\ (WellFormedCall /\ NameOf(last.request.Params) \in DOMAIN last.registry) =>
        last.calls = <<[handler |-> last.registry[NameOf(last.request.Params)],
                        arguments |-> ArgumentsOf(last.request.Params)]>>

\* C15 witness: basic_math was called under one handler, then registered
\* again with another handler, which the registry now holds.
C15_Witness ==
    /\ WellFormedCall
    /\ NameOf(last.request.Params) = "basic_math"
    /\ "basic_math" \in DOMAIN last.registry
    /\ last.registry["basic_math"] = "hAdd"
    /\ last.reg = [name |-> "basic_math", handler |-> "hAlt"]
    /\ tools["basic_math"] = "hAlt"

\* C16: initialize always succeeds and returns the same capability
\* descriptor (protocolVersion 2024-11-05, serverInfo name calculator-server)
\* in every registry state, after any other requests, whatever its id and
\* params.
C16_InitializeFixed ==
    (last.response # Nil /\ last.request.Method = "initialize")
    => /\ last.response.Error = Nil
       /\ last.response.Result = InitializeResult
       /\ last.response.Result.protocolVersion = "2024-11-05"
       /\ last.response.Result.serverName = "calculator-server"
       /\ last.calls = <<>>

\* C16 witness: initialize with unparsable params, on a registry holding a
\* failing custom tool, was answered with the descriptor.
C16_Witness ==
    /\ last.response # Nil
    /\ last.request.Method = "initialize"
    /\ last.request.Params.t = "garbage"
    /\ "custom" \in DOMAIN last.registry
    /\ last.registry["custom"] = "hFail"
    /\ last.response.Result = InitializeResult

\* C18: on every path of HandleRequest the response id is the request id,
\* the nil id of a request without id (or with a null id) included.
C18_IDEchoed ==
    last.response # Nil => last.response.ID = last.request.ID

\* C18 witness: a tools/call without id that failed in its handler was
\* answered with a nil id.
C18_Witness ==
    /\ WellFormedCall
    /\ last.request.ID = Nil
    /\ last.response.ID = Nil
    /\ last.response.Error # Nil
    /\ last.response.Error.Code = ErrorCodeInternalError

\* The lines of stdin that are not empty, in order.
NonBlank(lines) == SelectSeq(lines, LAMBDA l : l.t # "empty")

\* The lines Run has consumed so far.
Consumed == SubSeq(stdin, 1, run.pos)

\* A line that does not decode into the request shape.
LineUnparsable(l) ==
    /\ l.t = "text"
    /\ \/ l.body.t \in {"garbage", "array", "spaces"}
       \/ l.body.t = "object" /\ l.body.method.t = "num"

\* The request a decodable line carries.
LineRequest(l) ==
    IF l.body.t = "object"
    THEN [ID |-> IDOf(l.body.id), Method |-> BodyMethod(l), Params |-> l.body.params]
    ELSE ZeroMCPRequest

\* The response line owed to a non-empty line read on its own: the
\* InvalidRequest error when it does not decode, else what HandleRequest
\* returns for its request.
Answer(l) ==
    IF LineUnparsable(l)
    THEN [jsonrpc |-> "2.0", id |-> FieldNull, result |-> FieldAbsent,
          error |-> MCPError(ErrorCodeInvalidRequest, "Parse error", "unmarshal error")]
    ELSE MarshalResponse(HandleRequest(tools, LineRequest(l)).response)

\* C17: every response produced for a non-streaming outcome carries exactly
\* one of result and error, never both, never neither: every response
\* HandleRequest returns to a direct call (success and each error kind),
\* every response line Run writes (for a request it dispatched and for a
\* line that did not decode), and every JSON response body of the plain
\* transport's /mcp and of the streamable transport's POST (for a request
\* they dispatched and for a body that did not decode).
C17_ResultXorError ==
    LET ResultXorError(line) ==
            (line.result = FieldAbsent) # (line.error = FieldAbsent)
    IN  /\ last.response # Nil => ResultXorError(MarshalResponse(last.response))
        /\ \A k \in 1..Len(stdout) : ResultXorError(stdout[k])
        /\ \A p \in Procs :
              (/\ pc[p] = "done"
               /\ resp[p].kind = "json"
               /\ "path" \in DOMAIN req[p] => req[p].path = "/mcp")
              => /\ "Error" \in DOMAIN resp[p].rpc
                 /\ ResultXorError(MarshalResponse(resp[p].rpc))

\* C17 witness: the plain transport has answered a body that is not JSON
\* with a response that carries an error and no result.
C17_Witness ==
    \E p \in Procs :
        /\ pc[p] = "done"
        /\ "path" \in DOMAIN req[p]
        /\ req[p].path = "/mcp"
        /\ req[p].body.t = "garbage"
        /\ resp[p].kind = "json"
        /\ "Error" \in DOMAIN resp[p].rpc
        /\ resp[p].rpc.Error # Nil
        /\ resp[p].rpc.Result = Nil
        /\ MarshalResponse(resp[p].rpc).result = FieldAbsent

\* C19: for any input, once Run has returned, stdout holds exactly one
\* response per non-empty input line and none per empty line, the k-th
\* response answering the k-th non-empty line.
C19_OneResponsePerLine ==
    run.pc = "returned" =>
        /\ Len(stdout) = Len(NonBlank(stdin))
        /\ \A k \in 1..Len(stdout) :
            NonBlank(stdin)[k].t # "long" => stdout[k] = Answer(NonBlank(stdin)[k])

\* C20: a line that does not decode into the request shape gets one response
\* with error.code = InvalidRequest and the loop goes on: Run returns only at
\* the end of the input or when the scanner fails, and every line it consumed
\* is answered, in order, exactly as that line would be answered on its own.
C20_MalformedLineIsolated ==
    /\ Len(stdout) = Len(NonBlank(Consumed))
    /\ \A k \in 1..Len(stdout) :
        /\ stdout[k] = Answer(NonBlank(Consumed)[k])
        /\ LineUnparsable(NonBlank(Consumed)[k]) =>
            /\ stdout[k].error # FieldAbsent
            /\ stdout[k].error.Code = ErrorCodeInvalidRequest
            /\ stdout[k].result = FieldAbsent
    /\ run.pc = "returned" =>
        \/ run.pos = Len(stdin) /\ run.err = Nil
        \/ run.pos < Len(stdin) /\ stdin[run.pos + 1].t = "long" /\ run.err # Nil

\* C20 witness: Run has returned at the end of an input whose first line was
\* not JSON and whose second line, a tools/call, got its result.
C20_Witness ==
    /\ run.pc = "returned"
    /\ run.err = Nil
    /\ Len(stdin) = 2
    /\ stdin[1] = Line([t |-> "garbage"])
    /\ Len(stdout) = 2
    /\ stdout[1].error # FieldAbsent
    /\ stdout[1].error.Code = ErrorCodeInvalidRequest
    /\ stdout[2].result # FieldAbsent
    /\ stdout[2].result.t = "content"

-----------------------------------------------------------------------------
(* The plain transport's POST /mcp *)

\* Goroutine p has answered a POST /mcp whose Content-Type names JSON.
PlainPOST(p) ==
    /\ pc[p] = "done"
    /\ req[p].method = "POST"
    /\ req[p].path = "/mcp"
    /\ ContainsJSON(req[p].contentType)

\* C21: on the plain transport, the HTTP status of a POST /mcp whose body
\* parses is determined by the dispatch response: 200 without an error, 400
\* for InvalidRequest, 404 for MethodNotFound, 400 for InvalidParams, 500 for
\* InternalError; a tools/call of a tool that is not registered is answered
\* 404 with error.code = -32601.
C21_PlainStatusMapping ==
    \A p \in Procs :
        (PlainPOST(p) /\ BodyParses(req[p]))
        => LET e == resp[p].rpc.Error
               raw == req[p].body.params
           IN  /\ resp[p].kind = "json"
               /\ Entered(resp[p], "HandleRequest")
               /\ e = Nil => resp[p].status = 200
               /\ (e # Nil /\ e.Code = ErrorCodeInvalidRequest) => resp[p].status = 400
               /\ (e # Nil /\ e.Code = ErrorCodeMethodNotFound) => resp[p].status = 404
               /\ (e # Nil /\ e.Code = ErrorCodeInvalidParams) => resp[p].status = 400
               /\ (e # Nil /\ e.Code = ErrorCodeInternalError) => resp[p].status = 500
               /\ ( /\ BodyMethod(req[p]) = "tools/call"
                    /\ ~Malformed(raw)
                    /\ raw.t = "object"
                    /\ raw.name.t = "str"
                    /\ raw.name.v \notin DOMAIN tools )
                  => /\ resp[p].status = 404
                     /\ e # Nil
                     /\ e.Code = -32601

\* C21 witness: a tools/call of the unregistered tool "custom" was answered
\* 404 with error.code = -32601.
C21_Witness ==
    \E p \in Procs :
        /\ PlainPOST(p)
        /\ BodyMethod(req[p]) = "tools/call"
        /\ req[p].body.params.t = "object"
        /\ req[p].body.params.name = Str("custom")
        /\ "custom" \notin DOMAIN tools
        /\ resp[p].status = 404
        /\ resp[p].rpc.Error.Code = -32601

\* C22 as stated: a POST /mcp whose body does not parse as a request is
\* answered 400 with error.code = InvalidRequest, and the id written in the
\* response is the id member of the payload when the payload is a JSON object
\* with an id member, and null otherwise.
C22_ParseFailureEchoesID ==
    \A p \in Procs :
        (PlainPOST(p) /\ BodyUnparsable(req[p]))
        => /\ resp[p].status = 400
           /\ resp[p].kind = "json"
           /\ resp[p].rpc.Error # Nil
           /\ resp[p].rpc.Error.Code = ErrorCodeInvalidRequest
           /\ MarshalResponse(resp[p].rpc).id =
                 IF req[p].body.t = "object" /\ req[p].body.id.t # "absent"
                 THEN req[p].body.id
                 ELSE FieldNull

-----------------------------------------------------------------------------
(* The CORS layer *)

\* The allow-list of the configuration holds the origin or the wildcard.
OriginListed(cfg, origin) ==
    \E i \in 1..Len(cfg.CORSOrigins) :
        cfg.CORSOrigins[i] = origin \/ cfg.CORSOrigins[i] = "*"

\* C23: on both HTTP transports with CORS enabled, the response carries
\* Access-Control-Allow-Origin equal to the request's Origin if and only if
\* the allow-list holds that origin or the wildcard "*"; when the origin
\* matches nothing the header is not set.
C23_AllowOrigin ==
    \A p \in Procs :
        (pc[p] = "done" /\ config.CORSEnabled)
        => /\ resp[p].allowOrigin = [t |-> "str", v |-> req[p].origin]
                <=> OriginListed(config, req[p].origin)
           /\ ~OriginListed(config, req[p].origin) => resp[p].allowOrigin = Nil

\* C23 witness: under the wildcard, a plain-transport request from
\* http://b.test was answered with that origin in the header.
C23_Witness ==
    \E p \in Procs :
        /\ pc[p] = "done"
        /\ config = [CORSEnabled |-> TRUE, CORSOrigins |-> <<"*">>]
        /\ "path" \in DOMAIN req[p]
        /\ req[p].origin = "http://b.test"
        /\ resp[p].allowOrigin = [t |-> "str", v |-> "http://b.test"]

\* C24: with CORS enabled, an OPTIONS request to any route is answered 200
\* with no body by the CORS layer; the wrapped route handler, and with it
\* session handling and the dispatch engine, is not invoked for it.
C24_PreflightAnswered ==
    \A p \in Procs :
        (pc[p] = "done" /\ config.CORSEnabled /\ req[p].method = "OPTIONS")
        => /\ resp[p].status = 200
           /\ resp[p].kind = "empty"
           /\ resp[p].rpc = Nil
           /\ Len(resp[p].trace) = 1
           /\ resp[p].trace[1] \in {"corsMiddleware", "HTTPTransport.corsMiddleware"}
           /\ resp[p].calls = <<>>
           /\ resp[p].events = <<>>

\* C24 witness: an OPTIONS request on the streamable transport's /mcp, with
\* the protocol-version header set, was answered 200 without a body.
C24_Witness ==
    \E p \in Procs :
        /\ pc[p] = "done"
        /\ config.CORSEnabled
        /\ req[p].method = "OPTIONS"
        /\ "pv" \in DOMAIN req[p]
        /\ req[p].pv # ""
        /\ resp[p].status = 200
        /\ resp[p].kind = "empty"

-----------------------------------------------------------------------------
(* The session store's lock *)

\* The goroutines inside a write section of the store (createSession or
\* updateSessionActivity between Lock and Unlock; the reaper in its sweep)
\* and those inside the read section (isValidSession between RLock and
\* RUnlock).
WritersInside ==
    {p \in Procs : pc[p] \in {"creating", "touching"}}
    \cup (IF reaper = "sweep" THEN {"reaper"} ELSE {})

ReadersInside == {p \in Procs : pc[p] = "validating"}

\* C25: in every reachable state at most one writer (createSession,
\* updateSessionActivity or a reaper sweep) is inside the session store's
\* critical section, and no reader (isValidSession) is inside it together
\* with a writer.
C25_MutualExclusion ==
    /\ Cardinality(WritersInside) <= 1
    /\ WritersInside # {} => ReadersInside = {}

\* C25 witness: two readers are inside the critical section together.
C25_Witness ==
    /\ Cardinality(ReadersInside) = 2
    /\ WritersInside = {}
    /\ \A p \in ReadersInside : Entered(resp[p], "isValidSession")

-----------------------------------------------------------------------------
(* The protocol-version check and the session store *)

\* C26: a streamable request that lacks the protocol-version header (and is
\* not a pre-flight answered by the CORS layer) is rejected with 400 before
\* any other processing: serving it leaves the session store as it was (no
\* session created, none validated or touched), also when it carries the id
\* of a valid session, and the dispatch engine is not invoked.
C26_MissingVersionFrame ==
    [][\A p \in Procs :
          ( /\ pc[p] = "idle"
            /\ pc'[p] # "idle"
            /\ req'[p].pv = ""
            /\ ~(config.CORSEnabled /\ req'[p].method = "OPTIONS") )
          => /\ pc'[p] = "done"
             /\ resp'[p].status = 400
             /\ resp'[p].kind = "text"
             /\ sessions' = sessions
             /\ nextID' = nextID
             /\ mux' = mux
             /\ ~Entered(resp'[p], "isValidSession")
             /\ ~Entered(resp'[p], "updateSessionActivity")
             /\ NoHandlerRan(resp'[p])]_vars

\* C26 witness: a request without the header, carrying the id of a session
\* that is in the store, not expired and last seen before now, was answered
\* 400, and the session's lastSeenAt is what it was.
C26_Witness ==
    \E p \in Procs :
        /\ pc[p] = "done"
        /\ req[p].pv = ""
        /\ req[p].method = "POST"
        /\ req[p].sid \in DOMAIN sessions
        /\ isValidSession(sessions, req[p].sid, now)
        /\ sessions[req[p].sid].LastSeen < now
        /\ resp[p].status = 400
        /\ ~Entered(resp[p], "isValidSession")

-----------------------------------------------------------------------------
(* The reaper *)

\* C27: at each reaper wake-up exactly the sessions with now - lastSeenAt
\* greater than the session timeout are removed from the store; every other
\* session remains in the store with its fields unchanged.
C27_SweepExact ==
    [][(reaper = "sweep" /\ reaper' = "sleep")
       => /\ DOMAIN sessions' =
                {id \in DOMAIN sessions : ~(now - sessions[id].LastSeen > SessionTimeout)}
          /\ \A id \in DOMAIN sessions' : sessions'[id] = sessions[id]]_vars

\* C27 witness: after a sweep, one of the sessions created so far is gone and
\* another, whose age is exactly the timeout, is still in the store.
C27_Witness ==
    /\ reaper = "sleep"
    /\ \E gone \in 1..(nextID - 1) : gone \notin DOMAIN sessions
    /\ \E id \in DOMAIN sessions : now - sessions[id].LastSeen = SessionTimeout


\* C29: the reaper is the only writer that removes sessions.  No step of a
\* request handler (POST, GET, a rejected request, a stream closing) deletes
\* a session, and every write that is not the reaper's either adds a new
\* session or changes only lastSeenAt of an existing one: id, createdAt and
\* active never change after creation.  The reaper's sweep changes no session
\* that it leaves in the store.
C29_OnlyReaperDeletes ==
    [][IF reaper = "sweep" /\ reaper' = "sleep"
       THEN \A id \in DOMAIN sessions' :
               id \in DOMAIN sessions /\ sessions'[id] = sessions[id]
       ELSE sessions' # sessions =>
               \/ /\ DOMAIN sessions \subseteq DOMAIN sessions'
                  /\ Cardinality(DOMAIN sessions' \ DOMAIN sessions) = 1
                  /\ \A id \in DOMAIN sessions : sessions'[id] = sessions[id]
               \/ /\ DOMAIN sessions' = DOMAIN sessions
                  /\ \E id \in DOMAIN sessions :
                        /\ sessions'[id] =
                              [sessions[id] EXCEPT !.LastSeen = sessions'[id].LastSeen]
                        /\ \A other \in DOMAIN sessions \ {id} :
                              sessions'[other] = sessions[other]]_vars

\* C29 witness: a request under a session id has passed updateSessionActivity
\* and the session, still in the store, was last seen two clock units after
\* its creation: a write that changed lastSeenAt.
C29_Witness ==
    \E p \in Procs :
        /\ Entered(resp[p], "updateSessionActivity")
        /\ pc[p] = "done"
        /\ req[p].sid \in DOMAIN sessions
        /\ sessions[req[p].sid].LastSeen >= sessions[req[p].sid].CreatedAt + 2
        /\ sessions[req[p].sid].ID = req[p].sid
        /\ sessions[req[p].sid].Active

-----------------------------------------------------------------------------
(* The GET stream *)

\* The session id of the stream goroutine p opens in this step: the id the
\* request carries, or the id createSession returned for it.
StreamSessionID(p) == IF req[p].sid # 0 THEN req[p].sid ELSE resp[p].sessionID

\* C30: on a GET stream the first frame is exactly one "connection" event
\* carrying the stream's session id; every later frame is a "heartbeat"
\* event, one for each tick of the timer the handler receives; the handler
\* returns only once the request's context is cancelled, and after it has
\* returned no further frame is emitted.
C30_StreamOrdering ==
    [][\A p \in Procs :
          /\ (pc[p] # "stream" /\ pc'[p] = "stream")
             => /\ resp'[p].events =
                      <<[event |-> "connection", data |-> StreamSessionID(p)]>>
                /\ resp'[p].sessionHdr = StreamSessionID(p)
          /\ (pc[p] = "stream" /\ pc'[p] = "stream")
             => \/ resp'[p].events = resp[p].events
                \/ resp'[p].events =
                      Append(resp[p].events, [event |-> "heartbeat", data |-> 0])
          /\ (pc[p] = "stream" /\ pc'[p] # "stream")
             => /\ resp[p].ctxDone
                /\ pc'[p] = "done"
                /\ resp'[p].events = resp[p].events
          /\ (pc[p] = "done" /\ pc'[p] = "done") => resp'[p].events = resp[p].events
          /\ pc[p] \in {"stream", "done"} /\ Entered(resp[p], "setupSSEStream")
             => /\ Len(resp[p].events) >= 1
                /\ resp[p].events[1].event = "connection"
                /\ \A k \in 2..Len(resp[p].events) :
                      resp[p].events[k].event = "heartbeat"]_vars

\* C30 witness: a stream on a session of its own has emitted the connection
\* event and two heartbeats, its context was cancelled and the handler has
\* returned.
C30_Witness ==
    \E p \in Procs :
        /\ pc[p] = "done"
        /\ req[p].method = "GET"
        /\ req[p].sid = 0
        /\ resp[p].ctxDone
        /\ Len(resp[p].events) = 3
        /\ resp[p].events[1] = [event |-> "connection", data |-> resp[p].sessionHdr]
        /\ resp[p].events[3].event = "heartbeat"


\* C28: under fair scheduling of the reaper and an advancing clock, a session
\* that receives no further request carrying its id is eventually removed
\* from the store: a session last seen at t is in the end either gone or
\* was touched after t by a request carrying its id.
C28_ExpiryLiveness ==
    \A id \in 1..MaxSessions, t \in 0..MaxTime :
        (/\ id \in DOMAIN sessions
         /\ sessions[id].LastSeen = t
         /\ t + SessionTimeout < MaxTime)
        ~> (id \notin DOMAIN sessions \/ sessions[id].LastSeen > t)

\* C28 witness: the first session was created and the reaper has removed it.
C28_Witness ==
    /\ nextID > 1
    /\ 1 \notin DOMAIN sessions
    /\ reaper = "sleep"
    /\ now > SessionTimeout

-----------------------------------------------------------------------------
(* The dispatch engine across requests *)

\* C34: the dispatch engine is stateless across requests.  In every history
\* of calls over one registry, a HandleRequest call leaves the registry as
\* it was, and a request that is called again gets the response of its first
\* call (tools/list as a set of tools), whatever was called in between: a
\* request that failed, whatever the kind of its error, does not change the
\* response of a later one.
C34_Stateless ==
    [][/\ tools' = tools
       /\ last'.request \in DOMAIN last.answered
          => last'.response = last.answered[last'.request].response]_vars

\* C34 witness: a tools/call that returned its result was called again right
\* after a tools/call that failed in its handler, and returned the same.
C34_Witness ==
    /\ last.prev = [t |-> "error", code |-> ErrorCodeInternalError]
    /\ last.request \in DOMAIN last.answered
    /\ last.answered[last.request].again
    /\ last.request.Method = "tools/call"
    /\ last.response.Error = Nil
    /\ Len(last.calls) = 1
    /\ last.response = last.answered[last.request].response

-----------------------------------------------------------------------------
(* Expired sessions *)

\* C36 as stated: once the age of a session (now - lastSeenAt) has exceeded
\* the session timeout, no step refreshes its lastSeenAt, and no request
\* presenting its id goes on to be handled, under every interleaving of
\* validation, touch, the reaper and the clock.
C36_NoResurrection ==
    [][\A id \in DOMAIN sessions :
          (now - sessions[id].LastSeen > SessionTimeout)
          => /\ id \in DOMAIN sessions' => sessions'[id].LastSeen = sessions[id].LastSeen
             /\ \A p \in Procs :
                   (pc[p] = "touching" /\ req[p].sid = id) => pc'[p] = "touching"]_vars


\* C37: emitting frames on an open GET stream leaves the session store
\* unchanged.  Neither the connection event, written after createSession or
\* updateSessionActivity has returned and released the lock, nor a heartbeat
\* writes to the store or takes its lock.  So an open stream does not
\* refresh lastSeenAt of its session, which is reaped after the timeout
\* while the stream goes on emitting heartbeats.
C37_FramesLeaveStore ==
    [][\A p \in Procs :
          /\ (pc'[p] = "stream" /\ resp'[p].events # resp[p].events)
             => /\ sessions' = sessions
                /\ nextID' = nextID
                /\ mux' = mux
          /\ (pc[p] = "stream" /\ pc'[p] = "stream"
                /\ resp[p].sessionHdr \in DOMAIN sessions
                /\ resp[p].sessionHdr \in DOMAIN sessions')
             => sessions'[resp[p].sessionHdr] = sessions[resp[p].sessionHdr]]_vars

\* C37 witness: a stream that has emitted a heartbeat is open, its context
\* not cancelled and a further heartbeat due, and its session is no longer
\* in the store.
C37_Witness ==
    \E p \in Procs :
        /\ pc[p] = "stream"
        /\ ~resp[p].ctxDone
        /\ Len(resp[p].events) = 2
        /\ resp[p].events[2].event = "heartbeat"
        /\ Len(resp[p].events) <= MaxFrames
        /\ resp[p].sessionHdr \notin DOMAIN sessions
        /\ now > SessionTimeout

-----------------------------------------------------------------------------
(* The two transports compared *)

\* The streamable transport's answer to a POST that carries the body, the
\* protocol-version header, no session id and Accept: application/json.
StreamableAnswer(body) ==
    serveHTTP(config, tools,
              HTTPRequest("POST", "2025-03-26", 0, {"application/json"}, "", body)).w

\* The plain transport's answer to a POST /mcp that carries the body with
\* Content-Type: application/json.
PlainAnswer(body) ==
    plainServeHTTP(config, tools,
                   PlainRequest("POST", "/mcp", "application/json", "", body))

\* C38: for every body that parses as a request, the streamable POST
\* (protocol-version header set, no session id, Accept: application/json
\* without SSE) returns the same HTTP status and the same JSON-RPC response
\* as the plain POST /mcp with Content-Type application/json over the same
\* registry; both mappings send an error code they do not name to 500.
C38_TransportsAgree ==
    /\ \A p \in Procs :
          ( /\ PlainPOST(p)
            /\ req[p].contentType = "application/json"
            /\ BodyParses(req[p]) )
          => LET s == StreamableAnswer(req[p].body)
             IN  /\ s.status = resp[p].status
                 /\ s.kind = "json"
                 /\ resp[p].kind = "json"
                 /\ s.rpc = resp[p].rpc
                 /\ MarshalResponse(s.rpc) = MarshalResponse(resp[p].rpc)
                 /\ s.calls = resp[p].calls
    /\ \A code \in {-32700, -32000, 0, 1} :
          /\ StatusForError(code) = 500
          /\ HTTPStatusFor([Error |-> [Code |-> code]]) = 500

\* C38 witness: a tools/call without params was answered 400 with the
\* InvalidParams error by the plain transport, and the streamable transport
\* answers it the same.
C38_Witness ==
    \E p \in Procs :
        /\ PlainPOST(p)
        /\ req[p].contentType = "application/json"
        /\ BodyMethod(req[p]) = "tools/call"
        /\ req[p].body.params = FieldAbsent
        /\ resp[p].status = 400
        /\ resp[p].rpc.Error.Code = ErrorCodeInvalidParams
        /\ StreamableAnswer(req[p].body).status = 400
        /\ StreamableAnswer(req[p].body).rpc = resp[p].rpc

-----------------------------------------------------------------------------
(* Errors on the streamable POST *)

\* C39: when a streamable POST of a tools/call whose Accept includes
\* text/event-stream produces a JSON-RPC error (InvalidParams, MethodNotFound
\* or InternalError), the error is delivered inside one SSE "message" event
\* under HTTP 200: the mapping from error code to status applies to plain
\* JSON responses only.  The SSE response carries in Mcp-Session-Id the
\* session id handlePOST was given (none when the request carried none).
C39_SSEErrorIs200 ==
    \A p \in Procs :
        ( /\ pc[p] = "done"
          /\ Entered(resp[p], "handlePOST")
          /\ AcceptsSSE(req[p])
          /\ BodyParses(req[p])
          /\ BodyMethod(req[p]) = "tools/call" )
        => /\ resp[p].kind = "sse"
           /\ resp[p].status = 200
           /\ resp[p].rpc = Nil
           /\ Len(resp[p].events) = 1
           /\ resp[p].events[1].event = "message"
           /\ resp[p].events[1].data.ID = UnmarshalMCPRequest(req[p].body).req.ID
           /\ resp[p].sessionHdr = req[p].sid
           /\ Entered(resp[p], "HandleRequest")
           /\ ~Entered(resp[p], "writeJSONResponse")
           /\ resp[p].events[1].data.Error # Nil =>
                 /\ resp[p].events[1].data.Result = Nil
                 /\ resp[p].events[1].data.Error.Code \in
                       {ErrorCodeInvalidParams, ErrorCodeMethodNotFound,
                        ErrorCodeInternalError}

\* C39 witness: a tools/call under session 1, accepting SSE, failed in its
\* handler and was answered 200 with the InternalError in a "message" event
\* and the session id in the header.
C39_Witness ==
    \E p \in Procs :
        /\ pc[p] = "done"
        /\ Entered(resp[p], "handlePOST")
        /\ AcceptsSSE(req[p])
        /\ req[p].sid = 1
        /\ resp[p].kind = "sse"
        /\ resp[p].status = 200
        /\ resp[p].sessionHdr = 1
        /\ Len(resp[p].events) = 1
        /\ resp[p].events[1].event = "message"
        /\ resp[p].events[1].data.Error # Nil
        /\ resp[p].events[1].data.Error.Code = ErrorCodeInternalError

\* C40: on the streamable transport a POST body that fails to parse is
\* answered 400 with the InvalidRequest error under a null id, also when the
\* payload is a JSON object with an id member; the plain transport answers
\* the same body under the id it recovers from the payload.
C40_StreamableParseErrorNullID ==
    \A p \in Procs :
        ( /\ pc[p] = "done"
          /\ Entered(resp[p], "handlePOST")
          /\ AcceptsJSON(req[p]) \/ AcceptsSSE(req[p])
          /\ BodyUnparsable(req[p]) )
        => /\ resp[p].status = 400
           /\ resp[p].kind = "json"
           /\ resp[p].rpc.Error # Nil
           /\ resp[p].rpc.Error.Code = ErrorCodeInvalidRequest
           /\ resp[p].rpc.ID = Nil
           /\ MarshalResponse(resp[p].rpc).id = FieldNull
           /\ (req[p].body.t = "object" /\ req[p].body.id.t \notin {"absent", "null"})
              => /\ PlainAnswer(req[p].body).status = 400
                 /\ PlainAnswer(req[p].body).rpc.ID = IDOf(req[p].body.id)
                 /\ PlainAnswer(req[p].body).rpc.ID # Nil

\* C40 witness: a body with the id 1 and a number for method was answered
\* under a null id.
C40_Witness ==
    \E p \in Procs :
        /\ pc[p] = "done"
        /\ Entered(resp[p], "handlePOST")
        /\ req[p].body.t = "object"
        /\ req[p].body.id.t = "num"
        /\ req[p].body.id.v = 1
        /\ BodyUnparsable(req[p])
        /\ resp[p].status = 400
        /\ resp[p].kind = "json"
        /\ resp[p].rpc.ID = Nil
        /\ PlainAnswer(req[p].body).rpc.ID = req[p].body.id

-----------------------------------------------------------------------------
(* Transport-level rejections *)

\* The answer is a bare status: a plain-text body, no JSON-RPC response, no
\* event, and the dispatch engine was not invoked.
Bare(w) ==
    /\ w.kind = "text"
    /\ w.rpc = Nil
    /\ w.events = <<>>
    /\ ~Entered(w, "HandleRequest")
    /\ w.calls = <<>>

\* The request of p passed handleMCP's session check: it carried no session
\* id, or its id was found valid and touched.
PastSession(p) == req[p].sid = 0 \/ Entered(resp[p], "updateSessionActivity")

\* C35: the transport-level rejections are bare HTTP status codes, outside
\* any JSON-RPC envelope, and the dispatch engine is not invoked for them.
\* On the streamable transport: a missing protocol version is answered 400,
\* an invalid session 401, a verb other than POST and GET 405, an
\* unacceptable Accept 400.  On the plain transport's /mcp: a verb other
\* than POST is answered 405, a Content-Type without application/json 400.
C35_BareRejections ==
    \A p \in Procs :
        (pc[p] = "done" /\ ~(config.CORSEnabled /\ req[p].method = "OPTIONS"))
        => IF "path" \in DOMAIN req[p]
           THEN /\ (req[p].path = "/mcp" /\ req[p].method # "POST")
                   => resp[p].status = 405 /\ Bare(resp[p])
                /\ (req[p].path = "/mcp" /\ req[p].method = "POST"
                      /\ ~ContainsJSON(req[p].contentType))
                   => resp[p].status = 400 /\ Bare(resp[p])
           ELSE /\ req[p].pv = "" => resp[p].status = 400 /\ Bare(resp[p])
                /\ (req[p].pv # "" /\ ~PastSession(p))
                   => /\ resp[p].status = 401
                      /\ Bare(resp[p])
                      /\ Entered(resp[p], "isValidSession")
                /\ (req[p].pv # "" /\ PastSession(p) /\ req[p].method \notin {"POST", "GET"})
                   => resp[p].status = 405 /\ Bare(resp[p])
                /\ (req[p].pv # "" /\ PastSession(p) /\ req[p].method = "POST"
                      /\ ~AcceptsJSON(req[p]) /\ ~AcceptsSSE(req[p]))
                   => resp[p].status = 400 /\ Bare(resp[p])
                /\ (req[p].pv # "" /\ PastSession(p) /\ req[p].method = "GET"
                      /\ ~AcceptsSSE(req[p]))
                   => resp[p].status = 400 /\ Bare(resp[p])

\* C35 witness: a DELETE under a valid session id, with the protocol-version
\* header, was answered with a bare 405.
C35_Witness ==
    \E p \in Procs :
        /\ pc[p] = "done"
        /\ "pv" \in DOMAIN req[p]
        /\ req[p].pv # ""
        /\ req[p].method = "DELETE"
        /\ req[p].sid # 0
        /\ Entered(resp[p], "updateSessionActivity")
        /\ resp[p].status = 405
        /\ Bare(resp[p])

-----------------------------------------------------------------------------
(* The transport's lifecycle: cancellation and Stop *)

\* C31: once the cancellation signal of an open SSE stream has fired, the
\* stream handler eventually returns, under fair scheduling: no stream
\* handler stays in its loop after its request is cancelled.
C31_CancelledStreamReturns ==
    \A p \in Procs : (pc[p] = "stream" /\ resp[p].ctxDone) ~> (pc[p] # "stream")

\* C31 witness: a stream that wrote its connection event and a heartbeat was
\* cancelled and its handler has returned.
C31_Witness ==
    \E p \in Procs :
        /\ pc[p] = "done"
        /\ resp[p].ctxDone
        /\ Len(resp[p].events) >= 2
        /\ resp[p].events[1].event = "connection"
        /\ resp[p].events[2].event = "heartbeat"


\* C32: after Stop has been called, every open GET stream handler
\* eventually returns, without waiting for its client to disconnect.
C32_StopEndsStreams ==
    \A p \in Procs : (server # "serving" /\ pc[p] = "stream") ~> (pc[p] # "stream")

\* C33: the session reaper stops with the transport: after Stop has been
\* called, the reaper begins no further sweep (its ticker firing takes it
\* from sleeping to sweeping).
C33_NoSweepAfterStop ==
    [][server # "serving" => ~(reaper = "sleep" /\ reaper' = "sweep")]_vars

====
